---- MODULE Spec2Model ----
(***************************************************************************)
(* Connector-line layout and manual adjustment of the year-circle canvas:  *)
(* CircleRenderer (connector drawing, nearest-edge geometry),              *)
(* ConnectionLineAdjuster (segment handles, handle drags, commit),         *)
(* RecordManager (note store, debounced draws, move/reset policy) and the  *)
(* card-drag part of InteractionHandler.                                   *)
(*                                                                         *)
(* Coordinates are whole pixels.  An SVG path string is a sequence of      *)
(* one-character strings, so that generating and parsing it are modelled   *)
(* character by character.                                                 *)
(***************************************************************************)
EXTENDS Integers, Sequences, FiniteSets, TLC

\* ------------------------------------------------------------------------
\* Program constants
\* ------------------------------------------------------------------------
MIN_CONNECTION_LENGTH == 20
SegmentTolerance == 5
HandleHalfSize == 4
DefaultCardWidth == 200
DefaultCardHeight == 150

\* ------------------------------------------------------------------------
\* Bounds of the model
\* ------------------------------------------------------------------------
MaxClock == 2
MaxRedrawTimers == 1
\* longest point list given to the path functions when they are examined
\* on their own
MaxPathLen == 3
\* length of the path strings given to the parser on its own
MaxTextLen == 5
\* number of draw, remove and select operations applied in a row to the
\* connections layer examined on its own
MaxLayerOps == 3
\* number of handle drags made one after the other within one selection
MaxDrags == 2
\* number of draw requests and timer firings applied in a row to the note
\* store examined on its own
MaxDrawRequests == 3
\* number of autosave calls, timer firings and save completions applied in a
\* row to the storage manager examined on its own
MaxAutoSaveOps == 5

\* ------------------------------------------------------------------------
\* Values
\* ------------------------------------------------------------------------
\* null or undefined where the program expects an object
Null == [null |-> TRUE]
\* null where the program expects a note id
NoId == "null"
\* null where the program expects an array of points (the program never
\* stores an empty array there)
NoPoints == <<>>
NaN == "NaN"
\* records.get(id) of an id that is not in the Map
NoRecord == [noRecord |-> TRUE]
\* a record without the connectionLine property
NoConnectionLine == [noConnectionLine |-> TRUE]
NoTimer == [noTimer |-> TRUE]
NoDot == [noDot |-> TRUE]

\* obj.name is present (not undefined)
Has(obj, name) == name \in DOMAIN obj

Pt(px, py) == [x |-> px, y |-> py]

Abs(n) == IF n < 0 THEN -n ELSE n
Min(a, b) == IF a < b THEN a ELSE b
Max(a, b) == IF a > b THEN a ELSE b

\* a / b where the quotient is a whole number; the input sets of the model
\* are chosen so that every division the program performs is exact
ExactDiv(a, b) == CHOOSE q \in {Abs(a) \div Abs(b), -(Abs(a) \div Abs(b))} : q * b = a

\* ------------------------------------------------------------------------
\* Numbers and path strings
\* ------------------------------------------------------------------------
Digits == <<"0", "1", "2", "3", "4", "5", "6", "7", "8", "9">>
DigitChars == {Digits[i] : i \in 1..10}
\* the character class [\d.] without the minus sign
NumCharsWithoutSign == DigitChars \cup {"."}

\* the character class [\d.-]
NumChars == DigitChars \cup {".", "-"}
SpaceChars == {" "}

DigitValue(c) == (CHOOSE i \in 1..10 : Digits[i] = c) - 1

RECURSIVE NatToString(_)
NatToString(n) ==
    IF n < 10 THEN <<Digits[n + 1]>>
    ELSE NatToString(n \div 10) \o <<Digits[(n % 10) + 1]>>

\* `${n}` of a whole number
NumberToString(n) == IF n < 0 THEN <<"-">> \o NatToString(-n) ELSE NatToString(n)

\* length of the longest run of characters of class cls that starts at s[i]
RECURSIVE RunLength(_, _, _)
RunLength(s, i, cls) ==
    IF i > Len(s) \/ s[i] \notin cls THEN 0 ELSE 1 + RunLength(s, i + 1, cls)

RECURSIVE DigitsValue(_, _, _, _)
DigitsValue(s, i, n, acc) ==
    IF n = 0 THEN acc ELSE DigitsValue(s, i + 1, n - 1, acc * 10 + DigitValue(s[i]))

\* parseFloat of a run of [\d.-] characters: an optional sign and the
\* longest prefix of digits; NaN when no digit follows the sign.  A
\* fraction ("." followed by digits) is outside the whole-pixel model.
ParseFloat(s) ==
    LET neg == Len(s) >= 1 /\ s[1] = "-"
        start == IF neg THEN 2 ELSE 1
        n == RunLength(s, start, DigitChars)
        v == DigitsValue(s, start, n, 0)
    IN  IF n = 0 THEN NaN ELSE IF neg THEN -v ELSE v

\* one match of /[ML]\s*[\d.-]+\s*[\d.-]+/ attempted at s[i]: the length of
\* the match, 0 when the expression does not match there.  The quantifiers
\* are greedy; when nothing follows the first run, the run gives its last
\* character to the second one.
CommandMatchLength(s, i) ==
    IF i > Len(s) \/ s[i] \notin {"M", "L"} THEN 0
    ELSE LET ws1 == RunLength(s, i + 1, SpaceChars)
             n1 == RunLength(s, i + 1 + ws1, NumChars)
             ws2 == RunLength(s, i + 1 + ws1 + n1, SpaceChars)
             n2 == RunLength(s, i + 1 + ws1 + n1 + ws2, NumChars)
         IN  IF n1 = 0 THEN 0
             ELSE IF n2 > 0 THEN 1 + ws1 + n1 + ws2 + n2
             ELSE IF n1 >= 2 THEN 1 + ws1 + n1
             ELSE 0

\* command.match(/[\d.-]+/g): the runs of [\d.-] characters of s[i..j]
RECURSIVE NumberRuns(_, _, _)
NumberRuns(s, i, j) ==
    IF i > j THEN <<>>
    ELSE IF s[i] \in NumChars
         THEN LET n == Min(RunLength(s, i, NumChars), j - i + 1)
              IN  <<SubSeq(s, i, i + n - 1)>> \o NumberRuns(s, i + n, j)
         ELSE NumberRuns(s, i + 1, j)

RECURSIVE ParseCommands(_, _)
ParseCommands(s, i) ==
    IF i > Len(s) THEN <<>>
    ELSE LET m == CommandMatchLength(s, i)
         IN  IF m = 0 THEN ParseCommands(s, i + 1)
             ELSE LET coords == NumberRuns(s, i, i + m - 1)
                  IN  (IF Len(coords) >= 2
                       THEN <<Pt(ParseFloat(coords[1]), ParseFloat(coords[2]))>>
                       ELSE <<>>) \o ParseCommands(s, i + m)

\* ConnectionLineAdjuster.parsePathData
parsePathData(pathData) ==
    IF pathData = <<>> THEN <<>> ELSE ParseCommands(pathData, 1)

\* parsePathData of any value: the test !pathData || typeof pathData !==
\* 'string' comes first.  A value is [isString |-> TRUE, chars |-> ...] or
\* [isString |-> FALSE, ...] for null, undefined or a number.
parsePathDataOf(value) ==
    IF ~value.isString THEN <<>> ELSE parsePathData(value.chars)

RECURSIVE LineCommands(_, _)
LineCommands(points, i) ==
    IF i > Len(points) THEN <<>>
    ELSE <<" ", "L", " ">> \o NumberToString(points[i].x) \o <<" ">>
         \o NumberToString(points[i].y) \o LineCommands(points, i + 1)

PathString(points) ==
    <<"M", " ">> \o NumberToString(points[1].x) \o <<" ">>
    \o NumberToString(points[1].y) \o LineCommands(points, 2)

\* generatePathFromPoints without its loop over the later points: only the
\* move command is written
generatePathFromPointsMoveOnly(points) ==
    IF Len(points) < 2 THEN <<>>
    ELSE <<"M", " ">> \o NumberToString(points[1].x) \o <<" ">>
         \o NumberToString(points[1].y)

\* ConnectionLineAdjuster.generatePathFromPoints
generatePathFromPoints(points) ==
    IF Len(points) < 2 THEN <<>> ELSE PathString(points)

\* CircleRenderer.createPathFromPoints
createPathFromPoints(pathPoints) ==
    IF Len(pathPoints) < 2 THEN <<>> ELSE PathString(pathPoints)

\* ------------------------------------------------------------------------
\* CircleRenderer: geometry
\* ------------------------------------------------------------------------
Clamp(lo, hi, v) == Max(lo, Min(hi, v))

\* squared Euclidean distance; Math.sqrt is monotone, so comparing squares
\* compares distances
DistanceSquared(ax, ay, bx, by) == (ax - bx) * (ax - bx) + (ay - by) * (ay - by)

\* calculateForcedConnectionPoint without clamping the intersection to the
\* edge's span
calculateForcedConnectionPointUnclamped(targetX, targetY, cardX, cardY, cardWidth, cardHeight, minDistance) ==
    LET centerX == cardX + ExactDiv(cardWidth, 2)
        centerY == cardY + ExactDiv(cardHeight, 2)
        dx == targetX - centerX
        dy == targetY - centerY
    IN  IF dx = 0 /\ dy = 0 THEN Pt(cardX - minDistance, centerY)
        ELSE IF Abs(dx) > Abs(dy)
        THEN LET connectionX == IF dx > 0 THEN cardX + cardWidth ELSE cardX
             IN  Pt(connectionX, centerY + ExactDiv((connectionX - centerX) * dy, dx))
        ELSE LET connectionY == IF dy > 0 THEN cardY + cardHeight ELSE cardY
             IN  Pt(centerX + ExactDiv((connectionY - centerY) * dx, dy), connectionY)

\* CircleRenderer.calculateForcedConnectionPoint
calculateForcedConnectionPoint(targetX, targetY, cardX, cardY, cardWidth, cardHeight, minDistance) ==
    LET centerX == cardX + ExactDiv(cardWidth, 2)
        centerY == cardY + ExactDiv(cardHeight, 2)
        dx == targetX - centerX
        dy == targetY - centerY
    IN  IF dx = 0 /\ dy = 0 THEN Pt(cardX - minDistance, centerY)
        ELSE IF Abs(dx) > Abs(dy)
        THEN LET connectionX == IF dx > 0 THEN cardX + cardWidth ELSE cardX
                 connectionY == centerY + ExactDiv((connectionX - centerX) * dy, dx)
             IN  Pt(connectionX, Clamp(cardY, cardY + cardHeight, connectionY))
        ELSE LET connectionY == IF dy > 0 THEN cardY + cardHeight ELSE cardY
                 connectionX == centerX + ExactDiv((connectionY - centerY) * dx, dy)
             IN  Pt(Clamp(cardX, cardX + cardWidth, connectionX), connectionY)

\* the four candidates of calculateClosestEdgePoint in the order they are
\* pushed: left, right, top, bottom
EdgePoints(targetX, targetY, left, right, top, bottom) ==
    LET cy == Clamp(top, bottom, targetY)
        cx == Clamp(left, right, targetX)
    IN  << [x |-> left,  y |-> cy,     d2 |-> DistanceSquared(targetX, targetY, left, cy)],
           [x |-> right, y |-> cy,     d2 |-> DistanceSquared(targetX, targetY, right, cy)],
           [x |-> cx,    y |-> top,    d2 |-> DistanceSquared(targetX, targetY, cx, top)],
           [x |-> cx,    y |-> bottom, d2 |-> DistanceSquared(targetX, targetY, cx, bottom)] >>

\* the first candidate pushed, whatever its distance
FirstCandidate(cands) == Pt(cands[1].x, cands[1].y)

\* first element of a stable ascending sort by distance
FirstNearest(cands) ==
    LET i == CHOOSE k \in 1..Len(cands) :
                 /\ \A j \in 1..Len(cands) : cands[k].d2 <= cands[j].d2
                 /\ \A j \in 1..(k - 1) : cands[j].d2 > cands[k].d2
    IN  Pt(cands[i].x, cands[i].y)

\* CircleRenderer.calculateClosestEdgePoint
calculateClosestEdgePoint(targetX, targetY, cardX, cardY, cardWidth, cardHeight) ==
    LET left == cardX
        right == cardX + cardWidth
        top == cardY
        bottom == cardY + cardHeight
        isInsideOrTooClose ==
            /\ targetX >= left - MIN_CONNECTION_LENGTH
            /\ targetX <= right + MIN_CONNECTION_LENGTH
            /\ targetY >= top - MIN_CONNECTION_LENGTH
            /\ targetY <= bottom + MIN_CONNECTION_LENGTH
        edgePoints == EdgePoints(targetX, targetY, left, right, top, bottom)
        validEdgePoints ==
            SelectSeq(edgePoints,
                      LAMBDA p : p.d2 >= MIN_CONNECTION_LENGTH * MIN_CONNECTION_LENGTH)
    IN  IF isInsideOrTooClose \/ Len(validEdgePoints) = 0
        THEN calculateForcedConnectionPoint(targetX, targetY, cardX, cardY,
                                            cardWidth, cardHeight, MIN_CONNECTION_LENGTH)
        ELSE FirstNearest(validEdgePoints)

\* ------------------------------------------------------------------------
\* CircleRenderer: paths
\* ------------------------------------------------------------------------
\* the default path bending at the vertical midpoint: down, across, down
DefaultPathPointsVerticalFirst(startX, startY, endX, endY) ==
    LET midY == startY + ExactDiv(endY - startY, 2)
    IN  <<Pt(startX, startY), Pt(startX, midY), Pt(endX, midY), Pt(endX, endY)>>

\* the point list of the default path of createConnectionPath
DefaultPathPoints(startX, startY, endX, endY) ==
    LET midX == startX + ExactDiv(endX - startX, 2)
        midY == startY
    IN  <<Pt(startX, startY), Pt(midX, midY), Pt(midX, endY), Pt(endX, endY)>>

RECURSIVE SegmentPoints(_, _, _, _)
SegmentPoints(segments, i, currentX, currentY) ==
    IF i > Len(segments) THEN <<>>
    ELSE LET ny == IF segments[i].type = "horizontal"
                   THEN currentY + segments[i].offset ELSE currentY
             nx == IF segments[i].type = "vertical"
                   THEN currentX + segments[i].offset ELSE currentX
         IN  <<Pt(nx, ny)>> \o SegmentPoints(segments, i + 1, nx, ny)

\* CircleRenderer.createCustomConnectionPath (legacy segment offsets)
createCustomConnectionPath(startX, startY, endX, endY, segments) ==
    LET acc == <<Pt(startX, startY)>>
               \o SegmentPoints(segments, 1, startX + ExactDiv(endX - startX, 2), startY)
        last == acc[Len(acc)]
        straight == IF last.x # endX THEN <<Pt(endX, last.y)>> ELSE <<>>
    IN  PathString(acc \o straight \o <<Pt(endX, endY)>>)

\* createConnectionPath drawing stored path points between the current
\* anchor and the current edge point instead of verbatim
createConnectionPathReanchored(startX, startY, endX, endY, connectionLineData) ==
    IF /\ connectionLineData # Null
       /\ connectionLineData.isCustom
       /\ Has(connectionLineData, "pathPoints")
       /\ Len(connectionLineData.pathPoints) > 0
    THEN createPathFromPoints(
             [connectionLineData.pathPoints EXCEPT
                  ![1] = Pt(startX, startY),
                  ![Len(connectionLineData.pathPoints)] = Pt(endX, endY)])
    ELSE PathString(DefaultPathPoints(startX, startY, endX, endY))

\* createConnectionPath using stored path points whether or not isCustom is
\* set
createConnectionPathIgnoringFlag(startX, startY, endX, endY, connectionLineData) ==
    IF /\ connectionLineData # Null
       /\ Has(connectionLineData, "pathPoints")
       /\ Len(connectionLineData.pathPoints) > 0
    THEN createPathFromPoints(connectionLineData.pathPoints)
    ELSE PathString(DefaultPathPoints(startX, startY, endX, endY))

\* CircleRenderer.createConnectionPath; connectionLineData is Null or a
\* connectionLine value
createConnectionPath(startX, startY, endX, endY, connectionLineData) ==
    IF /\ connectionLineData # Null
       /\ connectionLineData.isCustom
       /\ Has(connectionLineData, "pathPoints")
       /\ Len(connectionLineData.pathPoints) > 0
    THEN createPathFromPoints(connectionLineData.pathPoints)
    ELSE IF /\ connectionLineData # Null
            /\ connectionLineData.isCustom
            /\ Has(connectionLineData, "segments")
            /\ Len(connectionLineData.segments) > 0
    THEN createCustomConnectionPath(startX, startY, endX, endY, connectionLineData.segments)
    ELSE PathString(DefaultPathPoints(startX, startY, endX, endY))

\* ------------------------------------------------------------------------
\* Inputs of the model
\* ------------------------------------------------------------------------
Notes == {"r1", "r2"}

\* record.date of each note; dateDots is keyed by the date
DateOf(n) == IF n = "r1" THEN "d1" ELSE "d2"
Dates == {DateOf(n) : n \in Notes}

\* day-marker positions a render of the circle can produce for a date
DotPositions(d) == {Pt(10, 30)}

\* the notes whose card and handles the user drags and which the user
\* deletes; the other note is only selected
MovableNotes == {"r1"}

\* card positions the drag chrome can produce
CardPositions(n) == {Pt(60, 20), Pt(60, 60)}

\* card sizes the resize chrome can produce
CardSizes(n) == {[width |-> 40, height |-> 20]}

\* the stored data the application starts from: r1 as createRecord left it,
\* r2 with a hand-tuned connector of three points
InitialPosition(n) == IF n = "r1" THEN Pt(60, 20) ELSE Pt(60, 60)
InitialSize(n) == [width |-> 40, height |-> 20]
InitialDot(d) == Pt(10, 30)

\* pointer positions (relative to the SVG) of mouse events
PointerXs == {50}
PointerYs == {45}

\* ------------------------------------------------------------------------
\* State
\* ------------------------------------------------------------------------
VARIABLES
    records,            \* RecordManager.records: note id -> record | NoRecord
    selectedRecord,     \* RecordManager.selectedRecord
    debounce,           \* RecordManager.connectionLineDebounceMap: the live timer it holds
    strayTimers,        \* live drawLine timers the debounce map no longer holds
    dateDots,           \* CircleRenderer.dateDots: date -> position | NoDot
    connectionsGroup,   \* CircleRenderer.connectionsGroup: the path elements
    selectedRecordId,   \* ConnectionLineAdjuster.selectedRecordId
    isDragging,         \* ConnectionLineAdjuster.isDragging
    dragTarget,         \* ConnectionLineAdjuster.dragTarget
    originalPathPoints, \* ConnectionLineAdjuster.originalPathPoints
    handlesGroup,       \* ConnectionLineAdjuster.handlesGroup: the handle elements
    dragListeners,      \* document-level onMouseMove/onMouseUp pairs of handle drags
    ihIsDragging,       \* InteractionHandler.isDragging
    ihDragTarget,       \* InteractionHandler.dragTarget (note id of the card)
    ihIsResizing,       \* InteractionHandler.isResizing
    ihResizeTarget,     \* InteractionHandler.resizeTarget (note id of the card)
    autoSaveTimer,      \* StorageManager.autoSaveTimer: a save is scheduled
    redrawTimers,       \* pending setTimeout(redrawAllConnectionLines, 100)
    now,                \* Date.now(): each reading is later than the one before
    buttonDown,         \* the mouse button is held down
    uncaughtError,      \* the last event handler was left by an uncaught exception
    input,              \* arguments of a function examined on its own
    output              \* what the function returned for input

\* the state of the running application
appVars == <<records, selectedRecord, debounce, strayTimers, dateDots, connectionsGroup,
             selectedRecordId, isDragging, dragTarget, originalPathPoints,
             handlesGroup, dragListeners, ihIsDragging, ihDragTarget,
             ihIsResizing, ihResizeTarget, autoSaveTimer, redrawTimers, now,
             buttonDown, uncaughtError>>

vars == <<appVars, input, output>>

\* no function is being examined on its own
NoInput == [kind |-> "none"]
\* the function has not been applied yet
NoOutput == [pending |-> TRUE]

\* the whole mutable state as one value, so that a handler is a function
\* from the state before it to the state after it
\* (every handler starts with no exception raised)
World ==
    [records |-> records, selectedRecord |-> selectedRecord, debounce |-> debounce,
     strayTimers |-> strayTimers,
     dateDots |-> dateDots, connectionsGroup |-> connectionsGroup,
     selectedRecordId |-> selectedRecordId, isDragging |-> isDragging,
     dragTarget |-> dragTarget, originalPathPoints |-> originalPathPoints,
     handlesGroup |-> handlesGroup, dragListeners |-> dragListeners,
     ihIsDragging |-> ihIsDragging, ihDragTarget |-> ihDragTarget,
     ihIsResizing |-> ihIsResizing, ihResizeTarget |-> ihResizeTarget,
     autoSaveTimer |-> autoSaveTimer, redrawTimers |-> redrawTimers, now |-> now,
     buttonDown |-> buttonDown, uncaughtError |-> FALSE]

Becomes(w) ==
    /\ records' = w.records
    /\ selectedRecord' = w.selectedRecord
    /\ debounce' = w.debounce
    /\ strayTimers' = w.strayTimers
    /\ dateDots' = w.dateDots
    /\ connectionsGroup' = w.connectionsGroup
    /\ selectedRecordId' = w.selectedRecordId
    /\ isDragging' = w.isDragging
    /\ dragTarget' = w.dragTarget
    /\ originalPathPoints' = w.originalPathPoints
    /\ handlesGroup' = w.handlesGroup
    /\ dragListeners' = w.dragListeners
    /\ ihIsDragging' = w.ihIsDragging
    /\ ihDragTarget' = w.ihDragTarget
    /\ ihIsResizing' = w.ihIsResizing
    /\ ihResizeTarget' = w.ihResizeTarget
    /\ autoSaveTimer' = w.autoSaveTimer
    /\ redrawTimers' = w.redrawTimers
    /\ now' = w.now
    /\ buttonDown' = w.buttonDown
    /\ uncaughtError' = w.uncaughtError
    /\ UNCHANGED <<input, output>>

\* ------------------------------------------------------------------------
\* DOM queries
\* ------------------------------------------------------------------------
\* connectionsGroup.querySelector(`[data-record-id="${recordId}"]`): index of
\* the first path element of the note, 0 when there is none
LineIndex(conns, recordId) ==
    IF \E i \in 1..Len(conns) : conns[i].recordId = recordId
    THEN CHOOSE i \in 1..Len(conns) :
             /\ conns[i].recordId = recordId
             /\ \A j \in 1..(i - 1) : conns[j].recordId # recordId
    ELSE 0

RemoveAt(seq, i) == SubSeq(seq, 1, i - 1) \o SubSeq(seq, i + 1, Len(seq))

\* StorageManager.triggerAutoSave (auto save is enabled by the application)
triggerAutoSave(w) == [w EXCEPT !.autoSaveTimer = TRUE]

\* ------------------------------------------------------------------------
\* ConnectionLineAdjuster
\* ------------------------------------------------------------------------
\* hideControlHandles without the reset of originalPathPoints
hideControlHandlesKeepingBaseline(w) ==
    [w EXCEPT !.handlesGroup = <<>>,
              !.selectedRecordId = NoId,
              !.dragListeners = [i \in 1..Len(w.dragListeners) |->
                                    [w.dragListeners[i] EXCEPT !.attached = FALSE]]]

\* hideControlHandles: every handle element leaves the document; the
\* closures of running drags keep their (now detached) handle
hideControlHandles(w) ==
    [w EXCEPT !.handlesGroup = <<>>,
              !.selectedRecordId = NoId,
              !.originalPathPoints = NoPoints,
              !.dragListeners = [i \in 1..Len(w.dragListeners) |->
                                    [w.dragListeners[i] EXCEPT !.attached = FALSE]]]

\* createControlHandle for segment i (0-based) of pathPoints.  x2 and y2
\* are twice the x and y attributes of the rect, so that the midpoint of a
\* segment of odd length stays a whole number.
createControlHandle(pathPoints, i, recordId) ==
    LET startPoint == pathPoints[i + 1]
        endPoint == pathPoints[i + 2]
    IN  [recordId |-> recordId,
         segmentIndex |-> i,
         isHorizontal |-> Abs(startPoint.y - endPoint.y) < SegmentTolerance,
         isVertical |-> Abs(startPoint.x - endPoint.x) < SegmentTolerance,
         x2 |-> (startPoint.x + endPoint.x) - 2 * HandleHalfSize,
         y2 |-> (startPoint.y + endPoint.y) - 2 * HandleHalfSize]

\* createSegmentControlHandles
createSegmentControlHandles(w, pathPoints, recordId) ==
    [w EXCEPT !.handlesGroup =
        w.handlesGroup \o [k \in 1..(Len(pathPoints) - 1) |->
                              createControlHandle(pathPoints, k - 1, recordId)]]

\* showControlHandles without its call of hideControlHandles: the handles of
\* the note are added to the ones already displayed
showControlHandlesKeepingOld(w, recordId) ==
    LET w1 == [w EXCEPT !.selectedRecordId = recordId]
        li == LineIndex(w1.connectionsGroup, recordId)
        pathData == w1.connectionsGroup[li].d
        pathPoints == parsePathData(pathData)
    IN  IF li = 0 THEN w1
        ELSE IF pathData = <<>> THEN w1
        ELSE IF Len(pathPoints) < 2 THEN w1
        ELSE createSegmentControlHandles([w1 EXCEPT !.originalPathPoints = pathPoints],
                                         pathPoints, recordId)

\* showControlHandles
showControlHandles(w, recordId) ==
    LET w1 == hideControlHandles([w EXCEPT !.selectedRecordId = recordId])
        li == LineIndex(w1.connectionsGroup, recordId)
        pathData == w1.connectionsGroup[li].d
        pathPoints == parsePathData(pathData)
    IN  IF li = 0 THEN w1
        ELSE IF pathData = <<>> THEN w1
        ELSE IF Len(pathPoints) < 2 THEN w1
        ELSE createSegmentControlHandles([w1 EXCEPT !.originalPathPoints = pathPoints],
                                         pathPoints, recordId)

\* updateControlHandlesPosition
updateControlHandlesPosition(w, recordId) ==
    LET li == LineIndex(w.connectionsGroup, recordId)
        pathData == w.connectionsGroup[li].d
        pathPoints == parsePathData(pathData)
    IN  IF li = 0 THEN w
        ELSE IF pathData = <<>> THEN w
        ELSE IF Len(pathPoints) < 2 THEN w
        ELSE createSegmentControlHandles(hideControlHandles(w), pathPoints, recordId)

\* the point list updateConnectionPath works on: the array is copied, the
\* point objects are shared with originalPathPoints
MovedPathPoints(pathPoints, segmentIndex, newX, newY, isHorizontal, isVertical) ==
    IF isHorizontal
    THEN [pathPoints EXCEPT ![segmentIndex + 1].y = newY, ![segmentIndex + 2].y = newY]
    ELSE IF isVertical
    THEN [pathPoints EXCEPT ![segmentIndex + 1].x = newX, ![segmentIndex + 2].x = newX]
    ELSE pathPoints

\* updateConnectionPath working on a deep copy of the baseline
updateConnectionPathOnCopy(w, recordId, segmentIndex, newX, newY, isHorizontal, isVertical) ==
    LET li == LineIndex(w.connectionsGroup, recordId)
    IN  IF li = 0 \/ w.originalPathPoints = NoPoints THEN w
        ELSE IF segmentIndex >= 0 /\ segmentIndex < Len(w.originalPathPoints) - 1
        THEN LET pathPoints == MovedPathPoints(w.originalPathPoints, segmentIndex,
                                               newX, newY, isHorizontal, isVertical)
             IN  [w EXCEPT !.connectionsGroup[li].d = generatePathFromPoints(pathPoints)]
        ELSE w

\* updateConnectionPath
updateConnectionPath(w, recordId, segmentIndex, newX, newY, isHorizontal, isVertical) ==
    LET li == LineIndex(w.connectionsGroup, recordId)
    IN  IF li = 0 \/ w.originalPathPoints = NoPoints THEN w
        ELSE IF segmentIndex >= 0 /\ segmentIndex < Len(w.originalPathPoints) - 1
        THEN LET pathPoints == MovedPathPoints(w.originalPathPoints, segmentIndex,
                                               newX, newY, isHorizontal, isVertical)
             IN  [w EXCEPT !.originalPathPoints = pathPoints,
                           !.connectionsGroup[li].d = generatePathFromPoints(pathPoints)]
        ELSE w

\* the connectionLine value saveConnectionLineAdjustment builds
CommittedConnectionLine(currentPoints, time) ==
    [isCustom |-> TRUE, pathPoints |-> currentPoints, lastModified |-> time]

\* saveConnectionLineAdjustment committing the cached baseline instead of
\* the path read back from the connector
saveConnectionLineAdjustmentFromBaseline(w, recordId) ==
    LET li == LineIndex(w.connectionsGroup, recordId)
        currentPath == w.connectionsGroup[li].d
    IN  IF li = 0 THEN w
        ELSE IF currentPath = <<>> THEN w
        ELSE IF w.records[recordId] = NoRecord THEN w
        ELSE triggerAutoSave(
                 [w EXCEPT !.records[recordId].connectionLine =
                               CommittedConnectionLine(w.originalPathPoints, w.now),
                           !.now = w.now + 1])

\* saveConnectionLineAdjustment
saveConnectionLineAdjustment(w, recordId) ==
    LET li == LineIndex(w.connectionsGroup, recordId)
        currentPath == w.connectionsGroup[li].d
    IN  IF li = 0 THEN w
        ELSE IF currentPath = <<>> THEN w
        ELSE IF w.records[recordId] = NoRecord THEN w
        ELSE triggerAutoSave(
                 [w EXCEPT !.records[recordId].connectionLine =
                               CommittedConnectionLine(parsePathData(currentPath), w.now),
                           !.now = w.now + 1])

\* adjustConnectionLineForNewPosition translating the first point as well
adjustConnectionLineMovingEveryPoint(originalConnectionLine, oldPosition, newPosition) ==
    IF ~Has(originalConnectionLine, "pathPoints") \/ Len(originalConnectionLine.pathPoints) = 0
    THEN originalConnectionLine
    ELSE LET deltaX == newPosition.x - oldPosition.x
             deltaY == newPosition.y - oldPosition.y
             pts == originalConnectionLine.pathPoints
         IN  [originalConnectionLine EXCEPT !.pathPoints =
                 [i \in 1..Len(pts) |-> Pt(pts[i].x + deltaX, pts[i].y + deltaY)]]

\* adjustConnectionLineForNewPosition
adjustConnectionLineForNewPosition(originalConnectionLine, oldPosition, newPosition) ==
    IF ~Has(originalConnectionLine, "pathPoints") \/ Len(originalConnectionLine.pathPoints) = 0
    THEN originalConnectionLine
    ELSE LET deltaX == newPosition.x - oldPosition.x
             deltaY == newPosition.y - oldPosition.y
             pts == originalConnectionLine.pathPoints
         IN  [originalConnectionLine EXCEPT !.pathPoints =
                 [i \in 1..Len(pts) |->
                     IF i = 1 THEN pts[i] ELSE Pt(pts[i].x + deltaX, pts[i].y + deltaY)]]

\* getSelectedRecordId
getSelectedRecordId(w) == w.selectedRecordId

\* ------------------------------------------------------------------------
\* CircleRenderer: connectors
\* ------------------------------------------------------------------------
\* CircleRenderer.removeConnectionLine
removeConnectionLine(w, recordId) ==
    LET li == LineIndex(w.connectionsGroup, recordId)
        w1 == IF li = 0 THEN w
              ELSE [w EXCEPT !.connectionsGroup = RemoveAt(w.connectionsGroup, li)]
    IN  IF getSelectedRecordId(w1) = recordId THEN hideControlHandles(w1) ELSE w1

\* width || 200, height || 150
WidthOrDefault(recordPosition) ==
    IF Has(recordPosition, "width") /\ recordPosition.width # 0
    THEN recordPosition.width ELSE DefaultCardWidth

HeightOrDefault(recordPosition) ==
    IF Has(recordPosition, "height") /\ recordPosition.height # 0
    THEN recordPosition.height ELSE DefaultCardHeight

\* the path string CircleRenderer.drawConnectionLine computes
ConnectionPathFor(dot, recordPosition, connectionLineData) ==
    LET connectionPoint ==
            calculateClosestEdgePoint(dot.x, dot.y, recordPosition.x, recordPosition.y,
                                      WidthOrDefault(recordPosition),
                                      HeightOrDefault(recordPosition))
    IN  createConnectionPath(dot.x, dot.y, connectionPoint.x, connectionPoint.y,
                             connectionLineData)

\* CircleRenderer.drawConnectionLine without its call of removeConnectionLine
CRdrawConnectionLineAppending(w, recordId, date, recordPosition, connectionLineData) ==
    LET dateDot == w.dateDots[date]
    IN  IF dateDot = NoDot THEN w
        ELSE [w EXCEPT !.connectionsGroup =
                 Append(w.connectionsGroup,
                        [recordId |-> recordId,
                         d |-> ConnectionPathFor(dateDot, recordPosition,
                                                 connectionLineData)])]

\* CircleRenderer.drawConnectionLine without its test of dateDot: reading
\* the cx attribute of undefined throws
CRdrawConnectionLineUnguarded(w, recordId, date, recordPosition, connectionLineData) ==
    LET dateDot == w.dateDots[date]
    IN  IF dateDot = NoDot THEN [w EXCEPT !.uncaughtError = TRUE]
        ELSE LET path == ConnectionPathFor(dateDot, recordPosition, connectionLineData)
                 w1 == removeConnectionLine(w, recordId)
             IN  [w1 EXCEPT !.connectionsGroup =
                     Append(w1.connectionsGroup, [recordId |-> recordId, d |-> path])]

\* CircleRenderer.drawConnectionLine; date stands for (month, day)
CRdrawConnectionLine(w, recordId, date, recordPosition, connectionLineData) ==
    LET dateDot == w.dateDots[date]
    IN  IF dateDot = NoDot THEN w
        ELSE LET path == ConnectionPathFor(dateDot, recordPosition, connectionLineData)
                 w1 == removeConnectionLine(w, recordId)
             IN  [w1 EXCEPT !.connectionsGroup =
                     Append(w1.connectionsGroup, [recordId |-> recordId, d |-> path])]

\* CircleRenderer.clearCanvas followed by drawDates: every connector is
\* removed and the day markers are created anew at newDots
renderCircle(w, newDots) ==
    [w EXCEPT !.connectionsGroup = <<>>, !.dateDots = newDots]

\* ------------------------------------------------------------------------
\* ConnectionLineAdjuster: event handlers
\* ------------------------------------------------------------------------
\* handleConnectionLineReset
handleConnectionLineReset(w, recordId) ==
    IF w.selectedRecordId = recordId THEN hideControlHandles(w) ELSE w

\* handleRecordDeleted
handleRecordDeleted(w, recordId) ==
    IF w.selectedRecordId = recordId
    THEN [hideControlHandles(w) EXCEPT !.selectedRecordId = NoId]
    ELSE w

\* updateConnectionLineForDrag; the record is in the store when the
\* position-change event is dispatched
updateConnectionLineForDrag(w, recordId, newPosition) ==
    LET record == w.records[recordId]
        cl == record.connectionLine
        connectionLineData ==
            IF cl # NoConnectionLine /\ cl.isCustom /\ Has(cl, "pathPoints")
            THEN adjustConnectionLineForNewPosition(cl, record.position, newPosition)
            ELSE Null
    IN  IF record = NoRecord THEN [w EXCEPT !.uncaughtError = TRUE]
        ELSE CRdrawConnectionLine(w, recordId, DateOf(recordId), newPosition,
                                  connectionLineData)

\* handleRecordPositionChange
handleRecordPositionChange(w, recordId, newPosition, dragging) ==
    IF w.selectedRecordId = recordId /\ dragging
    THEN IF w.records[recordId] = NoRecord
         THEN updateConnectionLineForDrag(w, recordId, newPosition)
         ELSE updateControlHandlesPosition(
                  updateConnectionLineForDrag(w, recordId, newPosition), recordId)
    ELSE w

\* ------------------------------------------------------------------------
\* RecordManager
\* ------------------------------------------------------------------------
\* validateConnectionLineData
validateConnectionLineData(connectionLineData) ==
    /\ connectionLineData # NoConnectionLine
    /\ Has(connectionLineData, "pathPoints")
    /\ Len(connectionLineData.pathPoints) >= 2
    /\ \A i \in 1..Len(connectionLineData.pathPoints) :
           /\ Has(connectionLineData.pathPoints[i], "x")
           /\ Has(connectionLineData.pathPoints[i], "y")

\* clearTimeout(connectionLineDebounceMap.get(recordId)): the timer the map
\* holds is cancelled
clearDebounceTimer(w, recordId) ==
    [w EXCEPT !.debounce[recordId] = NoTimer]

\* connectionLineDebounceMap.delete(recordId): a timer the map held stays
\* live
deleteDebounceEntry(w, recordId) ==
    IF w.debounce[recordId] = NoTimer THEN w
    ELSE [w EXCEPT !.strayTimers[recordId] = Append(@, w.debounce[recordId]),
                   !.debounce[recordId] = NoTimer]

\* connectionLineDebounceMap.set(recordId, setTimeout(drawLine, 50)): a
\* timer the map held before stays live
setDebounceTimer(w, recordId, timer) ==
    [deleteDebounceEntry(w, recordId) EXCEPT !.debounce[recordId] = timer]

\* the closure drawLine of RecordManager.drawConnectionLine.  record is the
\* record object the closure holds; inStore tells whether that object is
\* still the one in the Map (writes to it are then seen by the store).
drawLine(w, recordId, record, inStore, customPosition) ==
    LET cl == record.connectionLine
        custom == cl # NoConnectionLine /\ cl.isCustom
        isValid == validateConnectionLineData(cl)
        w1 == IF custom /\ ~isValid
              THEN triggerAutoSave(
                       IF inStore
                       THEN [w EXCEPT !.records[recordId].connectionLine = NoConnectionLine]
                       ELSE w)
              ELSE w
        connectionLineData == IF custom /\ isValid THEN cl ELSE Null
        relative == IF customPosition # Null THEN customPosition ELSE record.position
        positionData == [x |-> relative.x, y |-> relative.y,
                         width |-> IF record.size.width # 0 THEN record.size.width
                                   ELSE DefaultCardWidth,
                         height |-> IF record.size.height # 0 THEN record.size.height
                                    ELSE DefaultCardHeight]
        w2 == CRdrawConnectionLine(w1, recordId, DateOf(recordId), positionData,
                                   connectionLineData)
    IN  IF customPosition = Null /\ ~inStore
        THEN w     \* the card element is gone: warn and return
        ELSE deleteDebounceEntry(w2, recordId)

\* a live timer of note n fires and runs its drawLine closure: the timer
\* the map holds (i = 0) or the i-th of the others
drawTimerFires(w, n, i) ==
    LET timer == IF i = 0 THEN w.debounce[n] ELSE w.strayTimers[n][i]
        held == timer.record
        fired == IF i = 0 THEN [w EXCEPT !.debounce[n] = NoTimer]
                 ELSE [w EXCEPT !.strayTimers[n] = RemoveAt(@, i)]
    IN  drawLine(fired, n, IF held = Null THEN w.records[n] ELSE held,
                 held = Null, timer.customPosition)

\* RecordManager.drawConnectionLine without the clearTimeout of the pending
\* timer
RMdrawConnectionLineWithoutClear(w, recordId, immediate, customPosition) ==
    IF immediate
    THEN drawLine(w, recordId, w.records[recordId], TRUE, customPosition)
    ELSE setDebounceTimer(w, recordId,
                          [customPosition |-> customPosition, record |-> Null])

\* RecordManager.drawConnectionLine for a record of the store: a pending
\* timer of the note is cleared; the draw runs now or is scheduled
RMdrawConnectionLine(w, recordId, immediate, customPosition) ==
    LET w1 == clearDebounceTimer(w, recordId)
    IN  IF immediate
        THEN drawLine(w1, recordId, w1.records[recordId], TRUE, customPosition)
        ELSE setDebounceTimer(w1, recordId,
                              [customPosition |-> customPosition, record |-> Null])

\* resetConnectionLineToDefault clearing the isCustom flag instead of deleting
\* the connectionLine property
resetConnectionLineByFlag(w, recordId) ==
    LET cl == w.records[recordId].connectionLine
    IN  IF cl # NoConnectionLine /\ cl.isCustom
        THEN handleConnectionLineReset(
                 [w EXCEPT !.records[recordId].connectionLine.isCustom = FALSE],
                 recordId)
        ELSE w

\* resetConnectionLineToDefault
resetConnectionLineToDefault(w, recordId) ==
    LET cl == w.records[recordId].connectionLine
    IN  IF cl # NoConnectionLine /\ cl.isCustom
        THEN handleConnectionLineReset(
                 [w EXCEPT !.records[recordId].connectionLine = NoConnectionLine],
                 recordId)
        ELSE w

\* updateRecordPosition; reading record.position of a record that is not
\* in the Map throws
updateRecordPosition(w, recordId, newPosition, dragging) ==
    IF w.records[recordId] = NoRecord THEN [w EXCEPT !.uncaughtError = TRUE]
    ELSE LET w1 == [w EXCEPT !.records[recordId].position = newPosition]
             w2 == IF ~dragging THEN resetConnectionLineToDefault(w1, recordId) ELSE w1
             w3 == handleRecordPositionChange(w2, recordId, newPosition, dragging)
             w4 == RMdrawConnectionLine(w3, recordId, ~dragging, newPosition)
         IN  triggerAutoSave(w4)

\* selectRecord with the recordDeselected and recordSelected listeners of
\* the adjuster
selectRecord(w, recordId) ==
    LET w1 == IF w.selectedRecord # NoId THEN hideControlHandles(w) ELSE w
    IN  showControlHandles([w1 EXCEPT !.selectedRecord = recordId], recordId)

\* deleteRecord after the user confirmed; a pending draw closure keeps the
\* record object
deleteRecord(w, recordId) ==
    IF w.records[recordId] = NoRecord THEN w
    ELSE LET w1 == handleRecordDeleted(w, recordId)
             w2 == removeConnectionLine(w1, recordId)
             Held(timer) == IF timer.record = Null
                            THEN [timer EXCEPT !.record = w2.records[recordId]]
                            ELSE timer
             held == IF w2.debounce[recordId] = NoTimer THEN NoTimer
                     ELSE Held(w2.debounce[recordId])
             strays == [i \in 1..Len(w2.strayTimers[recordId]) |->
                           Held(w2.strayTimers[recordId][i])]
         IN  [w2 EXCEPT !.records[recordId] = NoRecord, !.debounce[recordId] = held,
                        !.strayTimers[recordId] = strays]

\* ------------------------------------------------------------------------
\* Handle drags (closures of attachHandleDragEvents)
\* ------------------------------------------------------------------------
\* the mousedown listener of handle k of handlesGroup
handleMouseDownOnHandle(w, k) ==
    LET handle == w.handlesGroup[k]
    IN  [w EXCEPT !.isDragging = TRUE,
                  !.dragTarget = [recordId |-> handle.recordId,
                                  segmentIndex |-> handle.segmentIndex],
                  !.dragListeners = Append(w.dragListeners,
                      [recordId |-> handle.recordId,
                       segmentIndex |-> handle.segmentIndex,
                       isHorizontal |-> handle.isHorizontal,
                       isVertical |-> handle.isVertical,
                       x2 |-> handle.x2, y2 |-> handle.y2,
                       attached |-> TRUE])]

\* the handle of a closure after onMouseMove set its x and y attributes:
\* the coordinate along the segment is kept, the other follows the pointer
MovedHandle(h, mouseX, mouseY) ==
    [h EXCEPT !.x2 = IF h.isHorizontal THEN h.x2 ELSE 2 * (mouseX - HandleHalfSize),
              !.y2 = IF ~h.isHorizontal /\ h.isVertical THEN h.y2
                     ELSE 2 * (mouseY - HandleHalfSize)]

\* onMouseMove of closure i.  updateConnectionPath reads constrainedY only
\* for a horizontal segment and constrainedX only for a vertical one, where
\* they are the pointer's coordinates.
onMouseMove(w, i, mouseX, mouseY) ==
    LET c == w.dragListeners[i]
        moved == MovedHandle(c, mouseX, mouseY)
        w1 == [w EXCEPT !.dragListeners[i] = moved,
                        !.handlesGroup =
                            IF c.attached
                            THEN [k \in 1..Len(w.handlesGroup) |->
                                     IF w.handlesGroup[k].segmentIndex = c.segmentIndex
                                     THEN [w.handlesGroup[k] EXCEPT !.x2 = moved.x2,
                                                                    !.y2 = moved.y2]
                                     ELSE w.handlesGroup[k]]
                            ELSE w.handlesGroup]
    IN  IF ~w.isDragging \/ w.dragTarget = Null THEN w
        ELSE updateConnectionPath(w1, c.recordId, c.segmentIndex, mouseX, mouseY,
                                  c.isHorizontal, c.isVertical)

\* onMouseUp committing without clearing the drag state
onMouseUpKeepingDragState(w, c) ==
    IF w.isDragging THEN saveConnectionLineAdjustment(w, c.recordId) ELSE w

\* onMouseUp of a closure, without the removal of its listeners
onMouseUp(w, c) ==
    IF w.isDragging
    THEN saveConnectionLineAdjustment(
             [w EXCEPT !.isDragging = FALSE, !.dragTarget = Null], c.recordId)
    ELSE w

RECURSIVE AllOnMouseMove(_, _, _, _)
AllOnMouseMove(w, i, mouseX, mouseY) ==
    IF i > Len(w.dragListeners) THEN w
    ELSE AllOnMouseMove(onMouseMove(w, i, mouseX, mouseY), i + 1, mouseX, mouseY)

\* every registered onMouseUp runs in registration order and removes its
\* two listeners
RECURSIVE AllOnMouseUp(_)
AllOnMouseUp(w) ==
    IF Len(w.dragListeners) = 0 THEN w
    ELSE LET c == Head(w.dragListeners)
             w1 == onMouseUp(w, c)
         IN  AllOnMouseUp([w1 EXCEPT !.dragListeners = Tail(w1.dragListeners)])

\* ------------------------------------------------------------------------
\* InteractionHandler
\* ------------------------------------------------------------------------
\* startDrag
startDrag(w, recordId) ==
    selectRecord([w EXCEPT !.ihIsDragging = TRUE, !.ihDragTarget = recordId], recordId)

\* startResize
startResize(w, recordId) ==
    [w EXCEPT !.ihIsResizing = TRUE, !.ihResizeTarget = recordId]

\* handleMouseMove with handleDrag and handleResize
handleMouseMove(w, cardPosition, cardSize) ==
    IF w.ihIsDragging /\ w.ihDragTarget # NoId
    THEN updateRecordPosition(w, w.ihDragTarget, cardPosition, TRUE)
    ELSE IF w.ihIsResizing /\ w.ihResizeTarget # NoId
    THEN IF w.records[w.ihResizeTarget] # NoRecord
         THEN [w EXCEPT !.records[w.ihResizeTarget].size = cardSize]
         ELSE w
    ELSE w

\* endDrag; the card's bounding rectangle is where handleDrag or
\* renderRecord put it, which is record.position
endDrag(w) ==
    LET recordId == w.ihDragTarget
        w1 == IF recordId = NoId THEN w
              ELSE IF w.records[recordId] = NoRecord
              THEN updateRecordPosition(w, recordId, Null, FALSE)
              ELSE updateRecordPosition(w, recordId, w.records[recordId].position, FALSE)
    IN  IF recordId # NoId /\ w.records[recordId] = NoRecord
        THEN w1     \* updateRecordPosition threw: the rest of endDrag is skipped
        ELSE triggerAutoSave([w1 EXCEPT !.ihDragTarget = NoId, !.ihIsDragging = FALSE])

\* endResize
endResize(w) ==
    LET recordId == w.ihResizeTarget
        cleared == [w EXCEPT !.ihResizeTarget = NoId, !.ihIsResizing = FALSE]
    IN  triggerAutoSave(
            IF recordId # NoId /\ w.records[recordId] # NoRecord
            THEN updateRecordPosition(cleared, recordId, w.records[recordId].position, FALSE)
            ELSE cleared)

\* handleMouseUp
handleMouseUp(w) ==
    IF w.ihIsDragging THEN endDrag(w)
    ELSE IF w.ihIsResizing THEN endResize(w)
    ELSE w

\* drawAllConnectionLines: the records of the Map in insertion order
RECURSIVE drawAllConnectionLines(_, _)
drawAllConnectionLines(w, ids) ==
    IF ids = <<>> THEN w
    ELSE drawAllConnectionLines(
             IF w.records[Head(ids)] = NoRecord THEN w
             ELSE RMdrawConnectionLine(w, Head(ids), TRUE, Null),
             Tail(ids))

NoteOrder == <<"r1", "r2">>

\* clearAllRecords
clearAllRecords(w) ==
    [w EXCEPT !.records = [n \in Notes |-> NoRecord], !.selectedRecord = NoId]

\* record.connectionLine && record.connectionLine.isCustom of a record whose
\* data validateConnectionLineData rejects
InvalidCustomLine(record) ==
    /\ record # NoRecord
    /\ record.connectionLine # NoConnectionLine
    /\ record.connectionLine.isCustom
    /\ ~validateConnectionLineData(record.connectionLine)

\* cleanupInvalidConnectionLines clearing isCustom instead of deleting the
\* connectionLine property
cleanupInvalidConnectionLinesByFlag(w) ==
    LET cleaned ==
            [w EXCEPT !.records =
                [n \in Notes |->
                    IF InvalidCustomLine(w.records[n])
                    THEN [w.records[n] EXCEPT !.connectionLine.isCustom = FALSE]
                    ELSE w.records[n]]]
    IN  IF \E n \in Notes : InvalidCustomLine(w.records[n])
        THEN triggerAutoSave(cleaned) ELSE cleaned

\* cleanupInvalidConnectionLines
cleanupInvalidConnectionLines(w) ==
    LET cleaned ==
            [w EXCEPT !.records =
                [n \in Notes |->
                    IF InvalidCustomLine(w.records[n])
                    THEN [w.records[n] EXCEPT !.connectionLine = NoConnectionLine]
                    ELSE w.records[n]]]
    IN  IF \E n \in Notes : InvalidCustomLine(w.records[n])
        THEN triggerAutoSave(cleaned) ELSE cleaned

\* loadRecords; the cards are rendered without their connectors
loadRecords(w, recordsData) ==
    cleanupInvalidConnectionLines([clearAllRecords(w) EXCEPT !.records = recordsData])

\* ------------------------------------------------------------------------
\* Initial state: both notes loaded by loadRecords and drawn
\* ------------------------------------------------------------------------
\* the connectionLine createRecord gives a new record
NewConnectionLine ==
    [isCustom |-> FALSE, segments |-> <<>>]

\* the connectionLine of each note in the stored data
InitialConnectionLine(n) ==
    IF n = "r1" THEN NewConnectionLine
    ELSE [isCustom |-> TRUE,
          pathPoints |-> <<Pt(10, 30), Pt(10, 70), Pt(60, 70)>>,
          lastModified |-> 0]

EmptyWorld ==
    [records |-> [n \in Notes |-> [position |-> InitialPosition(n),
                                   size |-> InitialSize(n),
                                   connectionLine |-> InitialConnectionLine(n)]],
     selectedRecord |-> NoId,
     debounce |-> [n \in Notes |-> NoTimer],
     strayTimers |-> [n \in Notes |-> <<>>],
     dateDots |-> [d \in Dates |-> InitialDot(d)],
     connectionsGroup |-> <<>>,
     selectedRecordId |-> NoId, isDragging |-> FALSE, dragTarget |-> Null,
     originalPathPoints |-> NoPoints, handlesGroup |-> <<>>, dragListeners |-> <<>>,
     ihIsDragging |-> FALSE, ihDragTarget |-> NoId,
     ihIsResizing |-> FALSE, ihResizeTarget |-> NoId,
     autoSaveTimer |-> FALSE, redrawTimers |-> 0, now |-> 0,
     buttonDown |-> FALSE, uncaughtError |-> FALSE]

InitWorld == drawAllConnectionLines(EmptyWorld, NoteOrder)

\* the application's state is w
StateIs(w) ==
    /\ records = w.records
    /\ selectedRecord = w.selectedRecord
    /\ debounce = w.debounce
    /\ strayTimers = w.strayTimers
    /\ dateDots = w.dateDots
    /\ connectionsGroup = w.connectionsGroup
    /\ selectedRecordId = w.selectedRecordId
    /\ isDragging = w.isDragging
    /\ dragTarget = w.dragTarget
    /\ originalPathPoints = w.originalPathPoints
    /\ handlesGroup = w.handlesGroup
    /\ dragListeners = w.dragListeners
    /\ ihIsDragging = w.ihIsDragging
    /\ ihDragTarget = w.ihDragTarget
    /\ ihIsResizing = w.ihIsResizing
    /\ ihResizeTarget = w.ihResizeTarget
    /\ autoSaveTimer = w.autoSaveTimer
    /\ redrawTimers = w.redrawTimers
    /\ now = w.now
    /\ buttonDown = w.buttonDown
    /\ uncaughtError = w.uncaughtError

Init ==
    \E w \in {InitWorld} : StateIs(w) /\ input = NoInput /\ output = NoOutput

\* ------------------------------------------------------------------------
\* Events
\* ------------------------------------------------------------------------
\* mousedown on the card of note n
CardMouseDown(n) ==
    /\ ~buttonDown
    /\ records[n] # NoRecord
    /\ Becomes(startDrag([World EXCEPT !.buttonDown = TRUE], n))

\* mousedown on the resize handle of the card of note n
ResizeMouseDown(n) ==
    /\ ~buttonDown
    /\ records[n] # NoRecord
    /\ Becomes(startResize([World EXCEPT !.buttonDown = TRUE], n))

\* mousedown on an empty area of the canvas
CanvasMouseDown ==
    /\ ~buttonDown
    /\ Becomes([World EXCEPT !.selectedRecord = NoId, !.buttonDown = TRUE])

\* click on the card of note n
CardClick(n) ==
    /\ ~buttonDown
    /\ records[n] # NoRecord
    /\ Becomes(selectRecord(World, n))

\* mousedown on handle k
HandleMouseDown(k) ==
    /\ ~buttonDown
    /\ k \in 1..Len(handlesGroup)
    /\ handlesGroup[k].recordId \in MovableNotes
    /\ now < MaxClock
    /\ Becomes(handleMouseDownOnHandle([World EXCEPT !.buttonDown = TRUE], k))

\* mousemove on the document: the listener of InteractionHandler, then the
\* onMouseMove of every handle drag
DocumentMouseMove(mouseX, mouseY, cardPosition, cardSize) ==
    /\ buttonDown
    /\ ihIsDragging \/ ihIsResizing \/ Len(dragListeners) > 0
    /\ Becomes(AllOnMouseMove(handleMouseMove(World, cardPosition, cardSize),
                              1, mouseX, mouseY))

\* mouseup on the document
DocumentMouseUp ==
    /\ buttonDown
    /\ Becomes(AllOnMouseUp(handleMouseUp([World EXCEPT !.buttonDown = FALSE])))

\* Delete key, confirmed by the user
DeleteKey ==
    /\ selectedRecord \in MovableNotes
    /\ records[selectedRecord] # NoRecord
    /\ Becomes(deleteRecord(World, selectedRecord))

\* the 50 ms timer of a debounced draw fires
DrawTimerFire(n) ==
    \E i \in 0..Len(strayTimers[n]) :
        /\ i = 0 => debounce[n] # NoTimer
        /\ Becomes(drawTimerFires(World, n, i))

\* window resize: CircleRenderer.handleResize, then the application
\* schedules redrawAllConnectionLines
WindowResize(newDots) ==
    /\ redrawTimers < MaxRedrawTimers
    /\ Becomes([renderCircle(World, newDots) EXCEPT !.redrawTimers = redrawTimers + 1])

\* the 100 ms timer of redrawAllConnectionLines fires
RedrawAllConnectionLines ==
    /\ redrawTimers > 0
    /\ Becomes(drawAllConnectionLines([World EXCEPT !.redrawTimers = redrawTimers - 1],
                                      NoteOrder))

Next ==
    \/ \E n \in MovableNotes : CardMouseDown(n)
    \/ \E n \in MovableNotes : ResizeMouseDown(n)
    \/ CanvasMouseDown
    \/ \E n \in Notes : CardClick(n)
    \/ \E k \in 1..3 : HandleMouseDown(k)
    \/ \E mouseX \in PointerXs, mouseY \in PointerYs :
           \E cardPosition \in (IF ihIsDragging /\ ihDragTarget # NoId
                                THEN CardPositions(ihDragTarget) ELSE {Null}) :
               \E cardSize \in (IF ~ihIsDragging /\ ihIsResizing /\ ihResizeTarget # NoId
                                THEN CardSizes(ihResizeTarget) ELSE {Null}) :
                   DocumentMouseMove(mouseX, mouseY, cardPosition, cardSize)
    \/ DocumentMouseUp
    \/ DeleteKey
    \/ \E n \in Notes : DrawTimerFire(n)
    \/ \E newDots \in [Dates -> UNION {DotPositions(d) : d \in Dates}] :
           (\A d \in Dates : newDots[d] \in DotPositions(d)) /\ WindowResize(newDots)
    \/ RedrawAllConnectionLines

Spec == Init /\ [][Next]_vars

\* ------------------------------------------------------------------------
\* The functions on their own: the arguments are drawn from bounded sets
\* before the application has loaded anything, and one step applies a
\* function to them
\* ------------------------------------------------------------------------
\* coordinates of path points: negative, zero, several digits
PathCoords == {-12, 0, 105}
PathPoints == {Pt(px, py) : px \in PathCoords, py \in PathCoords}

\* point lists of at least two points
PathInputs ==
    {[kind |-> "path", points |-> p] :
        p \in UNION {[1..n -> PathPoints] : n \in 2..MaxPathLen}}

\* card rectangles: the one of the running model and the one of the
\* documented examples
GeometryRects == {[x |-> 60, y |-> 20, width |-> 40, height |-> 20],
                  [x |-> 200, y |-> 80, width |-> 150, height |-> 100]}

\* day-marker positions on a grid around and inside the rectangles, and one
\* beside a corner of the first rectangle
GeometryAnchors == {Pt(5 * i, 5 * j) : i \in 0..80, j \in (-4)..40} \cup {Pt(40, 12)}

\* the divisions calculateForcedConnectionPoint performs for the anchor give
\* whole pixels; for an anchor outside the rectangle grown by
\* MIN_CONNECTION_LENGTH it is not called and performs none
WholePixels(anchor, rect) ==
    LET halfWidth == rect.width \div 2
        halfHeight == rect.height \div 2
        dx == anchor.x - (rect.x + halfWidth)
        dy == anchor.y - (rect.y + halfHeight)
        forced == /\ anchor.x >= rect.x - MIN_CONNECTION_LENGTH
                  /\ anchor.x <= rect.x + rect.width + MIN_CONNECTION_LENGTH
                  /\ anchor.y >= rect.y - MIN_CONNECTION_LENGTH
                  /\ anchor.y <= rect.y + rect.height + MIN_CONNECTION_LENGTH
    IN  \/ ~forced
        \/ /\ rect.width % 2 = 0 /\ rect.height % 2 = 0
           /\ IF dx = 0 /\ dy = 0 THEN TRUE
              ELSE IF Abs(dx) > Abs(dy) THEN Abs(halfWidth * dy) % Abs(dx) = 0
              ELSE Abs(halfHeight * dx) % Abs(dy) = 0

GeometryInputs ==
    {in \in [kind : {"geometry"}, anchor : GeometryAnchors, rect : GeometryRects] :
        WholePixels(in.anchor, in.rect)}

\* anchors and targets of a default path; the horizontal midpoint of any
\* two of them is a whole pixel
EndpointCoords == {-20, 0, 50, 100}
Endpoints == {Pt(px, py) : px \in EndpointCoords, py \in EndpointCoords}
EndpointInputs == [kind : {"endpoints"}, anchor : Endpoints, target : Endpoints]

\* connectionLine values that are not custom: the property is absent, as
\* createRecord writes it, or isCustom is false beside left-over data
NonCustomLines ==
    {NoConnectionLine,
     NewConnectionLine,
     [isCustom |-> FALSE, pathPoints |-> <<Pt(10, 30), Pt(10, 70), Pt(60, 70)>>,
      lastModified |-> 0],
     [isCustom |-> FALSE, pathPoints |-> <<Pt(10, 30)>>],
     [isCustom |-> FALSE, segments |-> <<[type |-> "vertical", offset |-> 10]>>]}

\* a note to draw: its day marker, its card and its connectionLine
DrawInputs ==
    [kind : {"draw"},
     dot : {Pt(10, 30), Pt(10, 70)},
     position : {Pt(60, 20), Pt(60, 60), Pt(0, 20)},
     size : {[width |-> 40, height |-> 20], [width |-> 80, height |-> 20]},
     connectionLine : NonCustomLines]

\* connectionLine values of the persisted data.  A coordinate that is not
\* a number in the stored JSON (null, a string, missing) is a missing field.
PersistedLines ==
    {NoConnectionLine,
     NewConnectionLine,
     [isCustom |-> TRUE, pathPoints |-> <<Pt(10, 30), Pt(10, 70), Pt(60, 70)>>,
      lastModified |-> 0],
     [isCustom |-> TRUE, pathPoints |-> <<Pt(10, 30)>>, lastModified |-> 0],
     [isCustom |-> TRUE, pathPoints |-> <<>>, lastModified |-> 0],
     [isCustom |-> TRUE, segments |-> <<[type |-> "vertical", offset |-> 10]>>],
     [isCustom |-> TRUE, pathPoints |-> <<Pt(10, 30), [y |-> 70], Pt(60, 70)>>,
      lastModified |-> 0]}

\* the persisted data: a connectionLine value for every note
LoadInputs == [kind : {"load"}, stored : [Notes -> PersistedLines]]

\* the day markers of a rendered circle: a date of the records may have none
LayerDots == [Dates -> {Pt(10, 30), NoDot}]
LayerInputs == [kind : {"layer"}, dots : LayerDots]

\* card rectangles and connectionLineData a caller passes to the renderer
LayerRects == {[x |-> 60, y |-> 20, width |-> 40, height |-> 20],
               [x |-> 60, y |-> 60, width |-> 40, height |-> 20]}
LayerLines == {Null,
               [isCustom |-> TRUE,
                pathPoints |-> <<Pt(10, 30), Pt(10, 50), Pt(60, 50)>>,
                lastModified |-> 0]}

\* point lists of fewer than two points
ShortInputs ==
    {[kind |-> "short", points |-> p] :
        p \in UNION {[1..n -> PathPoints] : n \in 0..1}}

\* what getAttribute('d') or a caller can hand to the parser: null,
\* undefined, a number, or any string of up to MaxTextLen characters over
\* command letters, a blank, a digit and the minus sign
TextChars == {"M", "L", " ", "7", "-"}
TextValues ==
    {[isString |-> FALSE, type |-> t] : t \in {"null", "undefined", "number"}}
    \cup {[isString |-> TRUE, chars |-> c] :
             c \in UNION {[1..n -> TextChars] : n \in 0..MaxTextLen}}
TextInputs == {[kind |-> "text", value |-> v] : v \in TextValues}

\* a note whose handles are dragged one after the other within one
\* selection, and the pointer positions of the drags
DragInputs == [kind : {"drag"}, note : Notes]
DragPointers == {Pt(px, py) : px \in {20, 50}, py \in {10, 45}}

\* the loaded application receiving position updates and draw requests for
\* any of its notes; the positions a card is moved to
DebounceInputs == {[kind |-> "debounce"]}
DebouncePositions == {Pt(60, 20), Pt(60, 60), Pt(100, 60)}

\* the storage manager after the application enabled autosave
AutoSaveInputs == {[kind |-> "autosave"]}

UnitInputs ==
    PathInputs \cup GeometryInputs \cup EndpointInputs \cup DrawInputs \cup LoadInputs
    \cup LayerInputs \cup ShortInputs \cup TextInputs \cup DragInputs
    \cup DebounceInputs \cup AutoSaveInputs

UnitInit ==
    /\ StateIs(EmptyWorld)
    /\ input \in UnitInputs
    /\ output = NoOutput

\* parsePathData(generatePathFromPoints(points)) of the adjuster
ParseGenerated ==
    /\ input.kind = "path" /\ output = NoOutput
    /\ output' = [fn |-> "generatePathFromPoints",
                  value |-> parsePathData(generatePathFromPoints(input.points))]
    /\ UNCHANGED <<appVars, input>>

\* parsePathData of the adjuster reading what createPathFromPoints of the
\* renderer wrote
ParseCreated ==
    /\ input.kind = "path" /\ output = NoOutput
    /\ output' = [fn |-> "createPathFromPoints",
                  value |-> parsePathData(createPathFromPoints(input.points))]
    /\ UNCHANGED <<appVars, input>>

\* calculateClosestEdgePoint(anchor, rect)
ClosestEdgePoint ==
    /\ input.kind = "geometry" /\ output = NoOutput
    /\ output' = [fn |-> "calculateClosestEdgePoint",
                  value |-> calculateClosestEdgePoint(
                                input.anchor.x, input.anchor.y, input.rect.x,
                                input.rect.y, input.rect.width, input.rect.height)]
    /\ UNCHANGED <<appVars, input>>

\* createConnectionPath(anchor, target) without connectionLineData
DefaultPath ==
    /\ input.kind = "endpoints" /\ output = NoOutput
    /\ output' = [fn |-> "createConnectionPath",
                  value |-> createConnectionPath(input.anchor.x, input.anchor.y,
                                                 input.target.x, input.target.y, Null)]
    /\ UNCHANGED <<appVars, input>>

\* the application with the note of the input as r1 and its day marker,
\* nothing drawn yet
DrawWorld ==
    [EmptyWorld EXCEPT !.records["r1"] = [position |-> input.position,
                                          size |-> input.size,
                                          connectionLine |-> input.connectionLine],
                       !.dateDots[DateOf("r1")] = input.dot]

\* the d attribute of the path element of the note, <<>> when the note has
\* no path element
DrawnPath(w, recordId) ==
    LET li == LineIndex(w.connectionsGroup, recordId)
    IN  IF li = 0 THEN <<>> ELSE w.connectionsGroup[li].d

\* RecordManager.drawConnectionLine(record, true) of the note
DrawRecord ==
    /\ input.kind = "draw" /\ output = NoOutput
    /\ LET w == RMdrawConnectionLine(DrawWorld, "r1", TRUE, Null)
       IN  output' = [fn |-> "RecordManager.drawConnectionLine",
                      value |-> DrawnPath(w, "r1"),
                      connectionLine |-> w.records["r1"].connectionLine]
    /\ UNCHANGED <<appVars, input>>

\* CircleRenderer.drawConnectionLine called with the note's connectionLine
\* as it is stored
RendererDraw ==
    /\ input.kind = "draw" /\ output = NoOutput
    /\ LET rect == [x |-> input.position.x, y |-> input.position.y,
                    width |-> input.size.width, height |-> input.size.height]
           data == IF input.connectionLine = NoConnectionLine THEN Null
                   ELSE input.connectionLine
           w == CRdrawConnectionLine(DrawWorld, "r1", DateOf("r1"), rect, data)
       IN  output' = [fn |-> "CircleRenderer.drawConnectionLine",
                      value |-> DrawnPath(w, "r1"),
                      connectionLine |-> w.records["r1"].connectionLine]
    /\ UNCHANGED <<appVars, input>>

\* the recordsData given to loadRecords
StoredRecords ==
    [n \in Notes |-> [position |-> InitialPosition(n), size |-> InitialSize(n),
                      connectionLine |-> input.stored[n]]]

\* loadRecords(recordsData); the value is the application's state
LoadRecords ==
    /\ input.kind = "load" /\ output = NoOutput
    /\ output' = [fn |-> "loadRecords", value |-> loadRecords(EmptyWorld, StoredRecords)]
    /\ UNCHANGED <<appVars, input>>

\* drawAllConnectionLines after loadRecords, as the application start does
DrawLoaded ==
    /\ input.kind = "load" /\ Has(output, "value") /\ output.fn = "loadRecords"
    /\ output' = [fn |-> "drawAllConnectionLines",
                  loaded |-> output.value.records,
                  value |-> drawAllConnectionLines(output.value, NoteOrder)]
    /\ UNCHANGED <<appVars, input>>

\* the loaded application after a render of the circle with the day markers
\* of the input: no connector is drawn yet
LayerWorld == renderCircle(EmptyWorld, input.dots)

LayerStart ==
    /\ input.kind = "layer" /\ output = NoOutput
    /\ output' = [fn |-> "renderCircle", note |-> NoId, ops |-> 0,
                  before |-> LayerWorld, value |-> LayerWorld]
    /\ UNCHANGED <<appVars, input>>

\* one more operation can be applied to the layer
LayerReady ==
    /\ input.kind = "layer" /\ Has(output, "ops") /\ output.ops < MaxLayerOps

\* the result of an operation on the layer, with the state it was applied to
LayerResult(fn, n, w) ==
    [fn |-> fn, note |-> n, ops |-> output.ops + 1, before |-> output.value, value |-> w]

\* CircleRenderer.drawConnectionLine(n, month, day, rect, data)
LayerRendererDraw(n, rect, data) ==
    /\ LayerReady
    /\ output' = LayerResult("CircleRenderer.drawConnectionLine", n,
                             CRdrawConnectionLine(output.value, n, DateOf(n), rect, data))
    /\ UNCHANGED <<appVars, input>>

\* RecordManager.drawConnectionLine(record, true) of note n
LayerRecordDraw(n) ==
    /\ LayerReady
    /\ output' = LayerResult("RecordManager.drawConnectionLine", n,
                             RMdrawConnectionLine(output.value, n, TRUE, Null))
    /\ UNCHANGED <<appVars, input>>

\* CircleRenderer.removeConnectionLine(n)
LayerRemove(n) ==
    /\ LayerReady
    /\ output' = LayerResult("removeConnectionLine", n,
                             removeConnectionLine(output.value, n))
    /\ UNCHANGED <<appVars, input>>

\* RecordManager.selectRecord(n): the adjuster shows the handles of note n
LayerSelect(n) ==
    /\ LayerReady
    /\ output' = LayerResult("selectRecord", n, selectRecord(output.value, n))
    /\ UNCHANGED <<appVars, input>>

\* RecordManager.selectRecord(note) in the loaded application; the result
\* keeps the path on screen at the select and the list of the drags made
DragSelect ==
    /\ input.kind = "drag" /\ output = NoOutput
    /\ \E w \in {selectRecord(InitWorld, input.note)} :
           output' = [fn |-> "selectRecord", value |-> w,
                      captured |-> parsePathData(
                          w.connectionsGroup[LineIndex(w.connectionsGroup, input.note)].d),
                      drags |-> <<>>]
    /\ UNCHANGED <<appVars, input>>

\* mousedown on handle k
DragHandleDown(k) ==
    /\ input.kind = "drag" /\ Has(output, "drags")
    /\ ~output.value.buttonDown
    /\ Len(output.drags) < MaxDrags
    /\ k \in 1..Len(output.value.handlesGroup)
    /\ LET handle == output.value.handlesGroup[k]
       IN  output' = [output EXCEPT
                         !.fn = "mousedown",
                         !.value = handleMouseDownOnHandle(
                                       [output.value EXCEPT !.buttonDown = TRUE], k),
                         !.drags = Append(@, [segmentIndex |-> handle.segmentIndex,
                                              isHorizontal |-> handle.isHorizontal,
                                              isVertical |-> handle.isVertical,
                                              moved |-> FALSE, x |-> 0, y |-> 0])]
    /\ UNCHANGED <<appVars, input>>

\* mousemove on the document during the handle drag
DragMove(mouseX, mouseY) ==
    /\ input.kind = "drag" /\ Has(output, "drags")
    /\ output.value.buttonDown
    /\ output' = [output EXCEPT
                     !.fn = "mousemove",
                     !.value = AllOnMouseMove(handleMouseMove(output.value, Null, Null),
                                              1, mouseX, mouseY),
                     !.drags[Len(output.drags)] =
                         [@ EXCEPT !.moved = TRUE, !.x = mouseX, !.y = mouseY]]
    /\ UNCHANGED <<appVars, input>>

\* mouseup on the document
DragUp ==
    /\ input.kind = "drag" /\ Has(output, "drags")
    /\ output.value.buttonDown
    /\ output' = [output EXCEPT
                     !.fn = "mouseup",
                     !.value = AllOnMouseUp(handleMouseUp(
                                   [output.value EXCEPT !.buttonDown = FALSE]))]
    /\ UNCHANGED <<appVars, input>>

\* the loaded application with the connectors of both notes drawn
DebounceStart ==
    /\ input.kind = "debounce" /\ output = NoOutput
    /\ \E w \in {InitWorld} :
           output' = [fn |-> "drawAllConnectionLines", note |-> NoId, ops |-> 0,
                      before |-> w, value |-> w]
    /\ UNCHANGED <<appVars, input>>

\* updateRecordPosition(n, position, true) of handleDrag: a debounced draw
DebounceDragTo(n, position) ==
    /\ input.kind = "debounce" /\ Has(output, "ops") /\ output.ops < MaxDrawRequests
    /\ output' = [fn |-> "updateRecordPosition(dragging)", note |-> n,
                  ops |-> output.ops + 1, before |-> output.value,
                  value |-> updateRecordPosition(output.value, n, position, TRUE)]
    /\ UNCHANGED <<appVars, input>>

\* updateRecordPosition(n, position, false) of endDrag: an immediate draw
DebounceDropAt(n, position) ==
    /\ input.kind = "debounce" /\ Has(output, "ops") /\ output.ops < MaxDrawRequests
    /\ output' = [fn |-> "updateRecordPosition", note |-> n,
                  ops |-> output.ops + 1, before |-> output.value,
                  value |-> updateRecordPosition(output.value, n, position, FALSE)]
    /\ UNCHANGED <<appVars, input>>

\* drawConnectionLine(record, true) of drawAllConnectionLines
DebounceDrawNow(n) ==
    /\ input.kind = "debounce" /\ Has(output, "ops") /\ output.ops < MaxDrawRequests
    /\ output' = [fn |-> "drawConnectionLine(immediate)", note |-> n,
                  ops |-> output.ops + 1, before |-> output.value,
                  value |-> RMdrawConnectionLine(output.value, n, TRUE, Null)]
    /\ UNCHANGED <<appVars, input>>

\* a live timer of note n fires
DebounceFire(n) ==
    /\ input.kind = "debounce" /\ Has(output, "ops") /\ output.ops < MaxDrawRequests
    /\ \E i \in 0..Len(output.value.strayTimers[n]) :
           /\ i = 0 => output.value.debounce[n] # NoTimer
           /\ output' = [fn |-> "timer", note |-> n,
                         ops |-> output.ops + 1, before |-> output.value,
                         value |-> drawTimerFires(output.value, n, i)]
    /\ UNCHANGED <<appVars, input>>

\* StorageManager after its constructor: live are the timers set and not yet
\* fired or cleared, running the timer callbacks waiting for saveCallback,
\* timeouts the number of setTimeout calls made
NewStorageManager ==
    [autoSaveEnabled |-> TRUE, saveCallback |-> FALSE, autoSaveTimer |-> Null,
     hasUnsavedChanges |-> FALSE, live |-> {}, running |-> {}, timeouts |-> 0]

\* StorageManager.enableAutoSave(saveCallback)
SMenableAutoSave(s) ==
    [s EXCEPT !.autoSaveEnabled = TRUE, !.saveCallback = TRUE]

\* StorageManager.disableAutoSave
SMdisableAutoSave(s) ==
    LET s1 == [s EXCEPT !.autoSaveEnabled = FALSE]
    IN  IF s1.autoSaveTimer # Null
        THEN [s1 EXCEPT !.live = @ \ {s1.autoSaveTimer}, !.autoSaveTimer = Null]
        ELSE s1

\* StorageManager.triggerAutoSave
SMtriggerAutoSave(s) ==
    IF ~s.autoSaveEnabled \/ ~s.saveCallback THEN s
    ELSE LET s1 == [s EXCEPT !.hasUnsavedChanges = TRUE]
             s2 == IF s1.autoSaveTimer # Null
                   THEN [s1 EXCEPT !.live = @ \ {s1.autoSaveTimer}]
                   ELSE s1
             timer == [id |-> s2.timeouts + 1]
         IN  [s2 EXCEPT !.live = @ \cup {timer}, !.autoSaveTimer = timer,
                        !.timeouts = @ + 1]

\* the application enabled autosave
AutoSaveStart ==
    /\ input.kind = "autosave" /\ output = NoOutput
    /\ output' = [fn |-> "enableAutoSave", ops |-> 0, before |-> NewStorageManager,
                  value |-> SMenableAutoSave(NewStorageManager)]
    /\ UNCHANGED <<appVars, input>>

AutoSaveEnable ==
    /\ input.kind = "autosave" /\ Has(output, "ops") /\ output.ops < MaxAutoSaveOps
    /\ output' = [fn |-> "enableAutoSave", ops |-> output.ops + 1,
                  before |-> output.value, value |-> SMenableAutoSave(output.value)]
    /\ UNCHANGED <<appVars, input>>

AutoSaveDisable ==
    /\ input.kind = "autosave" /\ Has(output, "ops") /\ output.ops < MaxAutoSaveOps
    /\ output' = [fn |-> "disableAutoSave", ops |-> output.ops + 1,
                  before |-> output.value, value |-> SMdisableAutoSave(output.value)]
    /\ UNCHANGED <<appVars, input>>

AutoSaveTrigger ==
    /\ input.kind = "autosave" /\ Has(output, "ops") /\ output.ops < MaxAutoSaveOps
    /\ output' = [fn |-> "triggerAutoSave", ops |-> output.ops + 1,
                  before |-> output.value, value |-> SMtriggerAutoSave(output.value)]
    /\ UNCHANGED <<appVars, input>>

\* an autosave timer fires: its callback calls saveCallback and waits
AutoSaveTimerFire ==
    /\ input.kind = "autosave" /\ Has(output, "ops") /\ output.ops < MaxAutoSaveOps
    /\ \E timer \in output.value.live :
           output' = [fn |-> "timer", ops |-> output.ops + 1, before |-> output.value,
                      value |-> [output.value EXCEPT !.live = @ \ {timer},
                                                     !.running = @ \cup {timer}]]
    /\ UNCHANGED <<appVars, input>>

\* saveCallback of a waiting timer callback settles: the callback resumes
\* and resets autoSaveTimer
AutoSaveDone ==
    /\ input.kind = "autosave" /\ Has(output, "ops") /\ output.ops < MaxAutoSaveOps
    /\ \E timer \in output.value.running :
           output' = [fn |-> "saved", ops |-> output.ops + 1, before |-> output.value,
                      value |-> [output.value EXCEPT !.running = @ \ {timer},
                                                     !.autoSaveTimer = Null]]
    /\ UNCHANGED <<appVars, input>>

\* generatePathFromPoints of fewer than two points
GenerateShort ==
    /\ input.kind = "short" /\ output = NoOutput
    /\ output' = [fn |-> "generatePathFromPoints",
                  value |-> generatePathFromPoints(input.points)]
    /\ UNCHANGED <<appVars, input>>

\* createPathFromPoints of fewer than two points
CreateShort ==
    /\ input.kind = "short" /\ output = NoOutput
    /\ output' = [fn |-> "createPathFromPoints",
                  value |-> createPathFromPoints(input.points)]
    /\ UNCHANGED <<appVars, input>>

\* parsePathData of the value
ParseText ==
    /\ input.kind = "text" /\ output = NoOutput
    /\ output' = [fn |-> "parsePathData", value |-> parsePathDataOf(input.value)]
    /\ UNCHANGED <<appVars, input>>

UnitNext ==
    \/ GenerateShort
    \/ CreateShort
    \/ ParseText
    \/ LayerStart
    \/ \E n \in Notes, rect \in LayerRects, data \in LayerLines :
           LayerRendererDraw(n, rect, data)
    \/ \E n \in Notes : LayerRecordDraw(n)
    \/ \E n \in Notes : LayerRemove(n)
    \/ \E n \in Notes : LayerSelect(n)
    \/ DragSelect
    \/ \E k \in 1..3 : DragHandleDown(k)
    \/ \E pointer \in DragPointers : DragMove(pointer.x, pointer.y)
    \/ DragUp
    \/ AutoSaveStart
    \/ AutoSaveEnable
    \/ AutoSaveDisable
    \/ AutoSaveTrigger
    \/ AutoSaveTimerFire
    \/ AutoSaveDone
    \/ DebounceStart
    \/ \E n \in Notes, position \in DebouncePositions : DebounceDragTo(n, position)
    \/ \E n \in Notes, position \in DebouncePositions : DebounceDropAt(n, position)
    \/ \E n \in Notes : DebounceDrawNow(n)
    \/ \E n \in Notes : DebounceFire(n)
    \/ ParseGenerated
    \/ ParseCreated
    \/ ClosestEdgePoint
    \/ DefaultPath
    \/ DrawRecord
    \/ RendererDraw
    \/ LoadRecords
    \/ DrawLoaded

UnitSpec == UnitInit /\ [][UnitNext]_vars

\* ------------------------------------------------------------------------
\* Vocabulary of the properties
\* ------------------------------------------------------------------------
\* the d attribute of the connector of note n, <<>> when there is none
ScreenPath(conns, n) ==
    IF LineIndex(conns, n) = 0 THEN <<>> ELSE conns[LineIndex(conns, n)].d

\* the point list of the on-screen path of note n
ScreenPoints(conns, n) == parsePathData(ScreenPath(conns, n))

\* every segment is horizontal or vertical
Orthogonal(points) ==
    \A i \in 1..(Len(points) - 1) :
        points[i].x = points[i + 1].x \/ points[i].y = points[i + 1].y

IsCustom(cl) == cl # NoConnectionLine /\ cl.isCustom

\* the note whose handles are displayed, NoId when none is displayed
ShownNote == IF handlesGroup = <<>> THEN NoId ELSE handlesGroup[1].recordId

\* the default path of a record at its stored position and size
DefaultPathOf(n, record) ==
    LET dot == dateDots[DateOf(n)]
        cp == calculateClosestEdgePoint(dot.x, dot.y, record.position.x, record.position.y,
                                        record.size.width, record.size.height)
    IN  PathString(DefaultPathPoints(dot.x, dot.y, cp.x, cp.y))

\* pathPoints with every point except the first translated by (dx, dy)
Translated(pathPoints, dx, dy) ==
    [i \in 1..Len(pathPoints) |->
        IF i = 1 THEN pathPoints[i] ELSE Pt(pathPoints[i].x + dx, pathPoints[i].y + dy)]

\* the pointer-up of this step ends a card drag or a resize of note n
CompletedMove(n) ==
    /\ records[n] # NoRecord
    /\ \/ ihIsDragging /\ ihDragTarget = n
       \/ ~ihIsDragging /\ ihIsResizing /\ ihResizeTarget = n
    /\ DocumentMouseUp

\* this step is a pointer move that drags the card of note n to cardPosition
CardDragMove(n, cardPosition) ==
    /\ ihIsDragging /\ ihDragTarget = n
    /\ records[n] # NoRecord
    /\ \E mouseX \in PointerXs, mouseY \in PointerYs :
           DocumentMouseMove(mouseX, mouseY, cardPosition, Null)

\* this step is a pointer move to (mouseX, mouseY) during a handle drag
HandleDragMove(mouseX, mouseY) ==
    /\ isDragging /\ Len(dragListeners) > 0
    /\ \E cardPosition \in (IF ihIsDragging /\ ihDragTarget # NoId
                            THEN CardPositions(ihDragTarget) ELSE {Null}) :
           \E cardSize \in (IF ~ihIsDragging /\ ihIsResizing /\ ihResizeTarget # NoId
                            THEN CardSizes(ihResizeTarget) ELSE {Null}) :
               DocumentMouseMove(mouseX, mouseY, cardPosition, cardSize)

\* ------------------------------------------------------------------------
\* Properties
\* ------------------------------------------------------------------------
\* C1 (P1 for drags): after any handle drags every segment of the on-screen
\* path and of the committed path of a note is horizontal or vertical.
C1_DragsKeepSegmentsOrthogonal ==
    \A n \in Notes :
        /\ Orthogonal(ScreenPoints(connectionsGroup, n))
        /\ (/\ records[n] # NoRecord
            /\ IsCustom(records[n].connectionLine)
            /\ Has(records[n].connectionLine, "pathPoints"))
           => Orthogonal(records[n].connectionLine.pathPoints)

\* C2 (P5): a pointer move of a handle drag on segment i changes only points
\* i and i+1 of the on-screen path of the note, gives the dragged coordinate
\* of both the pointer's value and keeps the number of points.
C2_DragMoveChangesOnlyItsSegment ==
    [][\A mouseX \in PointerXs, mouseY \in PointerYs :
        (/\ HandleDragMove(mouseX, mouseY)
         /\ LineIndex(connectionsGroup, dragListeners[1].recordId) # 0
         /\ dragListeners[1].isHorizontal \/ dragListeners[1].isVertical)
        => LET c == dragListeners[1]
               i == c.segmentIndex
               before == ScreenPoints(connectionsGroup, c.recordId)
               after == ScreenPoints(connectionsGroup', c.recordId)
           IN  /\ Len(after) = Len(before)
               /\ \A j \in 1..Len(before) :
                      j \notin {i + 1, i + 2} => after[j] = before[j]
               /\ IF c.isHorizontal
                  THEN /\ after[i + 1] = Pt(before[i + 1].x, mouseY)
                       /\ after[i + 2] = Pt(before[i + 2].x, mouseY)
                  ELSE /\ after[i + 1] = Pt(mouseX, before[i + 1].y)
                       /\ after[i + 2] = Pt(mouseX, before[i + 2].y)]_vars

\* C3 (endDrag commit): the pointer-up that ends a handle drag on a note
\* whose connector exists stores {isCustom: true, pathPoints: the points of
\* the on-screen path, lastModified: now} in the note, schedules the auto
\* save and leaves the handles and the connector as they are, whether or not
\* the pointer moved during the drag.
C3_PointerUpCommitsScreenPath ==
    [][(/\ isDragging /\ Len(dragListeners) > 0
        /\ records[dragListeners[1].recordId] # NoRecord
        /\ LineIndex(connectionsGroup, dragListeners[1].recordId) # 0
        /\ DocumentMouseUp)
       => LET N == dragListeners[1].recordId
          IN  /\ records'[N].connectionLine =
                     [isCustom |-> TRUE,
                      pathPoints |-> ScreenPoints(connectionsGroup, N),
                      lastModified |-> now]
              /\ autoSaveTimer'
              /\ handlesGroup # <<>>
              /\ handlesGroup' = handlesGroup
              /\ connectionsGroup' = connectionsGroup
              /\ ~isDragging' /\ dragListeners' = <<>>]_vars

\* a commit of a drag during which the pointer never moved: the committed
\* points are those of the default path of r1 at its first position
C3_CommittedWithoutMove ==
    /\ records["r1"] # NoRecord
    /\ records["r1"].connectionLine =
           [isCustom |-> TRUE,
            pathPoints |-> <<Pt(10, 30), Pt(35, 30), Pt(35, 30), Pt(60, 30)>>,
            lastModified |-> 0]
    /\ ScreenPoints(connectionsGroup, "r1") = records["r1"].connectionLine.pathPoints
    /\ ShownNote = "r1"
    /\ autoSaveTimer /\ ~isDragging /\ ~buttonDown

\* C4 (select): selecting a note whose on-screen connector has n >= 2 points
\* leaves exactly n-1 handles, all of that note, handle i centred on the
\* midpoint of segment i and classified horizontal when |dy| < 5 and
\* vertical when |dx| < 5, and caches the n points as the baseline.
C4_SelectBuildsOneHandlePerSegment ==
    [][\A n \in Notes :
        (/\ selectedRecord' = n
         /\ CardClick(n) \/ CardMouseDown(n)
         /\ Len(ScreenPoints(connectionsGroup, n)) >= 2)
        => LET pts == ScreenPoints(connectionsGroup, n)
           IN  /\ originalPathPoints' = pts
               /\ Len(handlesGroup') = Len(pts) - 1
               /\ \A k \in 1..(Len(pts) - 1) :
                      LET h == handlesGroup'[k]
                      IN  /\ h.recordId = n
                          /\ h.segmentIndex = k - 1
                          /\ h.x2 + 2 * HandleHalfSize = pts[k].x + pts[k + 1].x
                          /\ h.y2 + 2 * HandleHalfSize = pts[k].y + pts[k + 1].y
                          /\ h.isHorizontal = (Abs(pts[k].y - pts[k + 1].y) < SegmentTolerance)
                          /\ h.isVertical = (Abs(pts[k].x - pts[k + 1].x) < SegmentTolerance)]_vars

\* the handles of r2 (a path of three points) are displayed after the
\* handles of r1 were: two handles, the first on a vertical segment
C4_HandlesOfThreePointPath ==
    /\ selectedRecord = "r2"
    /\ Len(handlesGroup) = 2
    /\ handlesGroup[1].recordId = "r2"
    /\ handlesGroup[1].isVertical /\ ~handlesGroup[1].isHorizontal
    /\ handlesGroup[2].isHorizontal /\ ~handlesGroup[2].isVertical
    /\ Len(originalPathPoints) = 3

\* C5: getSelectedRecordId() is the note whose handles are displayed, and
\* null exactly when no handles are displayed.
C5_SelectedIdTracksHandles ==
    getSelectedRecordId(World) = ShownNote

\* C6: recordDeleted or connectionLineReset for the note whose handles are
\* displayed removes the handles, clears the baseline and leaves the
\* controller idle; for any other note the controller is left unchanged.
C6_ResetAndDeleteDeselect ==
    [][/\ (DeleteKey /\ ShownNote = selectedRecord)
          => /\ handlesGroup' = <<>>
             /\ originalPathPoints' = NoPoints
             /\ selectedRecordId' = NoId
       /\ (DeleteKey /\ ShownNote # selectedRecord)
          => UNCHANGED <<handlesGroup, originalPathPoints, selectedRecordId>>
       /\ \A n \in Notes :
              (CompletedMove(n) /\ IsCustom(records[n].connectionLine))
              => IF ShownNote = n
                 THEN /\ handlesGroup' = <<>>
                      /\ originalPathPoints' = NoPoints
                      /\ selectedRecordId' = NoId
                 ELSE UNCHANGED <<handlesGroup, originalPathPoints, selectedRecordId>>]_vars

\* C7 (no orphaned handles): every displayed handle belongs to a note whose
\* connector is on screen.
C7_NoOrphanedHandles ==
    \A k \in 1..Len(handlesGroup) :
        LineIndex(connectionsGroup, handlesGroup[k].recordId) # 0

\* C8: the pointer-up that completes a card drag or a resize of a note
\* leaves the note without a custom connectionLine (a custom one is deleted,
\* not flagged) and the connector drawn is the default path for the note's
\* position and size; a pointer move of a card drag stores the new position
\* and leaves the connectionLine as it is.
C8_CompletedMoveResetsToDefault ==
    [][\A n \in Notes :
        /\ CompletedMove(n)
           => /\ records'[n].connectionLine =
                     (IF IsCustom(records[n].connectionLine)
                      THEN NoConnectionLine ELSE records[n].connectionLine)
              /\ ~IsCustom(records'[n].connectionLine)
              /\ ScreenPath(connectionsGroup', n) = DefaultPathOf(n, records'[n])
        /\ \A cardPosition \in CardPositions(n) :
               CardDragMove(n, cardPosition)
               => /\ records'[n].connectionLine = records[n].connectionLine
                  /\ records'[n].position = cardPosition]_vars

\* a committed path of r1 was discarded by a completed move to (60, 60) and
\* the default path for that position is on screen
C8_CustomPathDiscarded ==
    /\ records["r1"] # NoRecord
    /\ records["r1"].connectionLine = NoConnectionLine
    /\ records["r1"].position = Pt(60, 60)
    /\ ScreenPoints(connectionsGroup, "r1") =
           <<Pt(10, 30), Pt(35, 30), Pt(35, 60), Pt(60, 60)>>
    /\ ~ihIsDragging /\ ~buttonDown

\* C9: a pointer move that drags the card of the selected note with a custom
\* path from one position to another redraws the connector from the stored
\* pathPoints, every point but the first translated by the change of
\* position.
C9_CustomPathFollowsCard ==
    [][\A n \in Notes : \A cardPosition \in CardPositions(n) :
        (/\ CardDragMove(n, cardPosition)
         /\ selectedRecord = n
         /\ IsCustom(records[n].connectionLine)
         /\ Has(records[n].connectionLine, "pathPoints"))
        => ScreenPoints(connectionsGroup', n) =
               Translated(records[n].connectionLine.pathPoints,
                          cardPosition.x - records[n].position.x,
                          cardPosition.y - records[n].position.y)]_vars

\* C10 (P6): a pointer move of a card drag leaves the stored connectionLine
\* of the note unchanged, and the path adjusted for the move from the old
\* to the new position keeps the stored first point, flag and time stamp.
C10_CardDragKeepsAnchorAndStore ==
    [][\A n \in Notes : \A cardPosition \in CardPositions(n) :
        CardDragMove(n, cardPosition)
        => /\ records'[n].connectionLine = records[n].connectionLine
           /\ (/\ IsCustom(records[n].connectionLine)
               /\ Has(records[n].connectionLine, "pathPoints"))
              => LET cl == records[n].connectionLine
                     adjusted == adjustConnectionLineForNewPosition(
                                     cl, records[n].position, cardPosition)
                 IN  /\ adjusted.pathPoints[1] = cl.pathPoints[1]
                     /\ Len(adjusted.pathPoints) = Len(cl.pathPoints)
                     /\ adjusted.isCustom = cl.isCustom
                     /\ adjusted.lastModified = cl.lastModified]_vars

\* the card of r1, which has a committed path, is dragged away from the
\* position the path was committed at, and the draw of the move is pending
C10_CustomCardMoved ==
    /\ ihIsDragging /\ ihDragTarget = "r1" /\ buttonDown
    /\ records["r1"] # NoRecord
    /\ IsCustom(records["r1"].connectionLine)
    /\ records["r1"].position = Pt(60, 60)
    /\ records["r1"].connectionLine.pathPoints[4] = Pt(60, 30)
    /\ debounce["r1"] # NoTimer

C12_HandlesReflectScreenPath ==
    (/\ handlesGroup # <<>> /\ ~isDragging
     /\ records[ShownNote] # NoRecord
     /\ LineIndex(connectionsGroup, ShownNote) # 0) =>
        LET points == ScreenPoints(connectionsGroup, ShownNote)
        IN  /\ Len(handlesGroup) = Len(points) - 1
            /\ \A k \in 1..Len(handlesGroup) :
                   /\ handlesGroup[k].x2 + 2 * HandleHalfSize = points[k].x + points[k + 1].x
                   /\ handlesGroup[k].y2 + 2 * HandleHalfSize = points[k].y + points[k + 1].y

\* day-marker positions and card rectangles a later draw may find
ReplayDots == {Pt(10, 70)}
ReplayRects == {[x |-> 0, y |-> 20, width |-> 80, height |-> 20]}

\* the points a draw of note n renders with the day marker at dot and the
\* card at rect: drawLine passes the stored connectionLine on when it is
\* valid, CircleRenderer.drawConnectionLine builds the path
RedrawnPoints(n, dot, rect) ==
    LET cl == records[n].connectionLine
    IN  parsePathData(ConnectionPathFor(dot, rect,
            IF IsCustom(cl) /\ validateConnectionLineData(cl) THEN cl ELSE Null))

\* C13: a committed path P of a note stays its stored path until a
\* completed move, a reset, a delete or another commit; outside a handle
\* drag the connector on screen shows exactly P, and a draw of the note
\* renders exactly P wherever the day marker and the card are.
C13_CommittedPathReplayed ==
    /\ [](\A n \in Notes :
            (records[n] # NoRecord /\ IsCustom(records[n].connectionLine)) =>
                /\ (~isDragging /\ LineIndex(connectionsGroup, n) # 0) =>
                       ScreenPoints(connectionsGroup, n) = records[n].connectionLine.pathPoints
                /\ \A dot \in ReplayDots, rect \in ReplayRects :
                       RedrawnPoints(n, dot, rect) = records[n].connectionLine.pathPoints)
    /\ [][\A n \in Notes :
            (~isDragging /\ records[n] # NoRecord /\ IsCustom(records[n].connectionLine)) =>
                \/ records'[n] = NoRecord
                \/ ~IsCustom(records'[n].connectionLine)
                \/ records'[n].connectionLine = records[n].connectionLine]_vars

\* the committed path of r1 was drawn again by the debounce timer while its
\* card was being dragged to another place
C13_CommittedPathRedrawnElsewhere ==
    /\ records["r1"] # NoRecord
    /\ IsCustom(records["r1"].connectionLine)
    /\ records["r1"].connectionLine.lastModified = 0 /\ now = 1
    /\ ihIsDragging /\ ihDragTarget = "r1"
    /\ records["r1"].position # InitialPosition("r1")
    /\ debounce["r1"] = NoTimer
    /\ LineIndex(connectionsGroup, "r1") = 2
    /\ ScreenPoints(connectionsGroup, "r1") = records["r1"].connectionLine.pathPoints

\* C14: parsing the line string generated from a point list of at least
\* two points gives back the same point list: same length, same order,
\* same coordinates (by generatePathFromPoints and by createPathFromPoints).
C14_ParseInvertsGenerate ==
    (input.kind = "path" /\ Has(output, "value")) =>
        /\ Len(output.value) = Len(input.points)
        /\ \A i \in 1..Len(input.points) :
               /\ output.value[i].x = input.points[i].x
               /\ output.value[i].y = input.points[i].y

\* a list of three points with a negative and a three-digit coordinate went
\* through the string and came back
C14_NegativePathParsed ==
    /\ input.kind = "path" /\ Has(output, "value")
    /\ Len(input.points) = 3
    /\ input.points[1] = Pt(-12, 105) /\ input.points[3] = Pt(105, -12)
    /\ output.fn = "generatePathFromPoints"
    /\ output.value = input.points

\* the point lies on the boundary of the rectangle
OnPerimeter(p, rect) ==
    \/ /\ p.x \in {rect.x, rect.x + rect.width}
       /\ p.y >= rect.y /\ p.y <= rect.y + rect.height
    \/ /\ p.y \in {rect.y, rect.y + rect.height}
       /\ p.x >= rect.x /\ p.x <= rect.x + rect.width

\* the squared distances from the anchor to the nearest point of each of
\* the four edges
ClampedDistances(anchor, rect) ==
    LET edges == EdgePoints(anchor.x, anchor.y, rect.x, rect.x + rect.width,
                            rect.y, rect.y + rect.height)
    IN  {edges[i].d2 : i \in 1..4}

\* the anchor is inside the rectangle grown by MIN_CONNECTION_LENGTH
InsideOrTooClose(anchor, rect) ==
    /\ anchor.x >= rect.x - MIN_CONNECTION_LENGTH
    /\ anchor.x <= rect.x + rect.width + MIN_CONNECTION_LENGTH
    /\ anchor.y >= rect.y - MIN_CONNECTION_LENGTH
    /\ anchor.y <= rect.y + rect.height + MIN_CONNECTION_LENGTH

\* C15 (P3): when the anchor is at least MIN_CONNECTION_LENGTH away from
\* every edge of the rectangle, the returned point is on the boundary, at
\* least MIN_CONNECTION_LENGTH from the anchor, and its distance is the
\* smallest of the four edges' clamped distances.
C15_NearestEdgePointAtMinDistance ==
    (/\ input.kind = "geometry" /\ Has(output, "value")
     /\ \A d2 \in ClampedDistances(input.anchor, input.rect) :
            d2 >= MIN_CONNECTION_LENGTH * MIN_CONNECTION_LENGTH) =>
        LET d2 == DistanceSquared(input.anchor.x, input.anchor.y,
                                  output.value.x, output.value.y)
        IN  /\ OnPerimeter(output.value, input.rect)
            /\ d2 >= MIN_CONNECTION_LENGTH * MIN_CONNECTION_LENGTH
            /\ \A e2 \in ClampedDistances(input.anchor, input.rect) : d2 <= e2

\* C16 (P4): when the anchor is inside the rectangle or within
\* MIN_CONNECTION_LENGTH of it, the returned point lies on the perimeter.
C16_ForcedPointOnPerimeter ==
    (/\ input.kind = "geometry" /\ Has(output, "value")
     /\ InsideOrTooClose(input.anchor, input.rect)) =>
        OnPerimeter(output.value, input.rect)

\* C17: the default path from anchor to target is the four points anchor,
\* (mid, anchor.y), (mid, target.y), target, where mid is halfway between
\* anchor.x and target.x.
C17_DefaultPathIsFourPoints ==
    (input.kind = "endpoints" /\ Has(output, "value")) =>
        LET points == parsePathData(output.value)
        IN  /\ Len(points) = 4
            /\ points[1] = input.anchor
            /\ points[4] = input.target
            /\ points[2].y = input.anchor.y /\ points[3].y = input.target.y
            /\ points[2].x = points[3].x
            /\ 2 * points[2].x = input.anchor.x + input.target.x

\* the default path from (0,0) to (100,50) was computed
C17_DocumentedDefaultPath ==
    /\ input.kind = "endpoints" /\ Has(output, "value")
    /\ input.anchor = Pt(0, 0) /\ input.target = Pt(100, 50)
    /\ parsePathData(output.value) = <<Pt(0, 0), Pt(50, 0), Pt(50, 50), Pt(100, 50)>>

\* C18: every two consecutive points of a default path differ in exactly
\* one coordinate, also when anchor and target share an x or a y.
C18_DefaultPathSegmentsDifferInOneCoordinate ==
    (input.kind = "endpoints" /\ Has(output, "value")) =>
        LET points == parsePathData(output.value)
        IN  \A i \in 1..(Len(points) - 1) :
                (points[i].x # points[i + 1].x) # (points[i].y # points[i + 1].y)

\* C19: a note whose connectionLine is absent or has isCustom false is
\* drawn with the default path from its day marker to the nearest edge
\* point of its card, whatever else the connectionLine carries; the draw
\* leaves the connectionLine as it was.
C19_NonCustomDrawnByDefault ==
    (input.kind = "draw" /\ Has(output, "value")) =>
        LET points == parsePathData(output.value)
            target == calculateClosestEdgePoint(input.dot.x, input.dot.y,
                          input.position.x, input.position.y,
                          input.size.width, input.size.height)
        IN  /\ Len(points) = 4
            /\ points[1] = input.dot
            /\ points[4] = target
            /\ points[2].y = input.dot.y /\ points[3].y = target.y
            /\ points[2].x = points[3].x
            /\ 2 * points[2].x = input.dot.x + target.x
            /\ output.connectionLine = input.connectionLine

\* a note with isCustom false and three left-over path points was drawn by
\* the record manager
C19_LeftOverPointsIgnored ==
    /\ input.kind = "draw" /\ Has(output, "value")
    /\ output.fn = "RecordManager.drawConnectionLine"
    /\ input.connectionLine # NoConnectionLine
    /\ Has(input.connectionLine, "pathPoints")
    /\ Len(input.connectionLine.pathPoints) = 3
    /\ input.dot = Pt(10, 70) /\ input.position = Pt(60, 20)
    /\ Len(parsePathData(output.value)) = 4

\* the persisted connectionLine is custom and its pathPoints are missing,
\* fewer than two, or hold a point without a numeric x or y
BrokenCustom(cl) ==
    /\ IsCustom(cl)
    /\ \/ ~Has(cl, "pathPoints")
       \/ Len(cl.pathPoints) < 2
       \/ \E i \in 1..Len(cl.pathPoints) :
              ~Has(cl.pathPoints[i], "x") \/ ~Has(cl.pathPoints[i], "y")

\* C20: after loadRecords a note whose persisted custom connectionLine was
\* broken has no connectionLine, a note with sound custom data has it
\* unchanged, and the following draw gives a cleaned note the default path.
C20_LoadCleansBrokenCustomLines ==
    (input.kind = "load" /\ Has(output, "value")) =>
        \A n \in Notes :
            LET stored == input.stored[n]
                loaded == IF output.fn = "loadRecords" THEN output.value.records[n]
                          ELSE output.loaded[n]
                target == calculateClosestEdgePoint(
                              InitialDot(DateOf(n)).x, InitialDot(DateOf(n)).y,
                              InitialPosition(n).x, InitialPosition(n).y,
                              InitialSize(n).width, InitialSize(n).height)
                points == parsePathData(DrawnPath(output.value, n))
            IN  /\ BrokenCustom(stored) => loaded.connectionLine = NoConnectionLine
                /\ (IsCustom(stored) /\ ~BrokenCustom(stored)) =>
                       loaded.connectionLine = stored
                /\ (output.fn = "drawAllConnectionLines" /\ BrokenCustom(stored)) =>
                       /\ output.value.records[n].connectionLine = NoConnectionLine
                       /\ Len(points) = 4
                       /\ points[1] = InitialDot(DateOf(n))
                       /\ points[4] = target
                       /\ points[2].y = points[1].y /\ points[3].y = target.y
                       /\ points[2].x = points[3].x
                       /\ 2 * points[2].x = points[1].x + target.x

\* data with a one-point custom path for r1 and a sound custom path for r2
\* was loaded and drawn
C20_OnePointPathCleanedAndDrawn ==
    /\ input.kind = "load" /\ Has(output, "value")
    /\ output.fn = "drawAllConnectionLines"
    /\ IsCustom(input.stored["r1"]) /\ Has(input.stored["r1"], "pathPoints")
    /\ Len(input.stored["r1"].pathPoints) = 1
    /\ IsCustom(input.stored["r2"]) /\ ~BrokenCustom(input.stored["r2"])
    /\ output.value.records["r1"].connectionLine = NoConnectionLine
    /\ output.value.autoSaveTimer
    /\ Len(parsePathData(DrawnPath(output.value, "r1"))) = 4
    /\ parsePathData(DrawnPath(output.value, "r2")) = input.stored["r2"].pathPoints

\* C21: in every state a stored connectionLine with isCustom set has a point
\* list of at least two points, each with numeric coordinates; in particular
\* the commit at the end of a handle drag never stores fewer than two points.
C21_CustomLinesHaveTwoPoints ==
    \A n \in Notes :
        (records[n] # NoRecord /\ IsCustom(records[n].connectionLine)) =>
            /\ Has(records[n].connectionLine, "pathPoints")
            /\ Len(records[n].connectionLine.pathPoints) >= 2
            /\ \A i \in 1..Len(records[n].connectionLine.pathPoints) :
                   /\ records[n].connectionLine.pathPoints[i].x \in Int
                   /\ records[n].connectionLine.pathPoints[i].y \in Int

\* the handle of a segment of r1 was dragged and the pointer-up committed
\* the path read back from the connector
C21_DraggedPathCommitted ==
    /\ records["r1"] # NoRecord
    /\ IsCustom(records["r1"].connectionLine)
    /\ records["r1"].connectionLine.pathPoints
           # parsePathData(DefaultPathOf("r1", records["r1"]))
    /\ ~isDragging /\ dragListeners = <<>>

\* the point on the edge of the card of note n a draw connects to
EdgePointOf(n) ==
    LET dot == dateDots[DateOf(n)]
        record == records[n]
    IN  calculateClosestEdgePoint(dot.x, dot.y, record.position.x, record.position.y,
                                  record.size.width, record.size.height)

\* C22: the path committed by the pointer-up of a handle drag starts at the
\* day marker of the note and ends at the point on the edge of its card,
\* whichever handle was dragged.
C22_CommitKeepsAnchorAndEdgePoint ==
    [][\A n \in MovableNotes :
          (/\ isDragging /\ dragTarget.recordId = n
           /\ records[n] # NoRecord
           /\ LineIndex(connectionsGroup, n) # 0
           /\ DocumentMouseUp) =>
              LET pts == records'[n].connectionLine.pathPoints
              IN  /\ IsCustom(records'[n].connectionLine)
                  /\ pts[1] = dateDots[DateOf(n)]
                  /\ pts[Len(pts)] = EdgePointOf(n)]_vars

\* the number of connectors of note n in the connections layer
ConnectorCount(conns, n) ==
    Cardinality({i \in 1..Len(conns) : conns[i].recordId = n})

\* an operation on the connections layer has been applied
LayerOutput == input.kind = "layer" /\ Has(output, "ops")

\* the renderer's draw of the last operation found the day marker
DrewNote(n) ==
    /\ LayerOutput
    /\ output.fn = "CircleRenderer.drawConnectionLine"
    /\ output.note = n
    /\ output.before.dateDots[DateOf(n)] # NoDot

\* C23: after any sequence of draws, removes and selections the connections
\* layer holds at most one connector per note; right after a draw of a note
\* that found its day marker it holds exactly one connector of that note,
\* and the connectors of the other notes are the ones it held before.
C23_OneConnectorPerNote ==
    LayerOutput =>
        /\ \A n \in Notes : ConnectorCount(output.value.connectionsGroup, n) <= 1
        /\ \A n \in Notes :
               DrewNote(n) =>
                   /\ ConnectorCount(output.value.connectionsGroup, n) = 1
                   /\ \A m \in Notes \ {n} :
                          /\ ConnectorCount(output.value.connectionsGroup, m)
                                 = ConnectorCount(output.before.connectionsGroup, m)
                          /\ DrawnPath(output.value, m) = DrawnPath(output.before, m)

\* r1 was drawn over its own earlier connector while r2 had one
C23_RedrawnBesideAnother ==
    /\ DrewNote("r1")
    /\ ConnectorCount(output.before.connectionsGroup, "r1") = 1
    /\ ConnectorCount(output.before.connectionsGroup, "r2") = 1
    /\ DrawnPath(output.value, "r1") # DrawnPath(output.before, "r1")

\* the last operation was a draw of note n, which has no day marker
DrewWithoutMarker(n) ==
    /\ LayerOutput
    /\ output.fn \in {"CircleRenderer.drawConnectionLine",
                      "RecordManager.drawConnectionLine"}
    /\ output.note = n
    /\ output.before.dateDots[DateOf(n)] = NoDot

\* C24: a draw of a note whose date has no day marker raises no exception
\* and leaves the connections layer, the handles and the stored records as
\* they were.
C24_DrawWithoutMarkerChangesNothing ==
    \A n \in Notes :
        DrewWithoutMarker(n) =>
            /\ ~output.value.uncaughtError
            /\ output.value.connectionsGroup = output.before.connectionsGroup
            /\ output.value.handlesGroup = output.before.handlesGroup
            /\ output.value.records = output.before.records

\* r1 has no day marker and was drawn while the connector of r2 and the
\* handles of r2 were displayed
C24_DrawnBesideConnectorAndHandles ==
    /\ DrewWithoutMarker("r1")
    /\ output.before.connectionsGroup # <<>>
    /\ output.before.handlesGroup # <<>>

\* the adjuster's state and the stored records are the same after the step,
\* and the step raised no exception
AdjusterUntouched ==
    /\ selectedRecordId' = selectedRecordId
    /\ originalPathPoints' = originalPathPoints
    /\ handlesGroup' = handlesGroup
    /\ records' = records
    /\ ~uncaughtError'

\* note n has no connector on screen, or one without a path of two points
ConnectorUnreadable(n) ==
    \/ LineIndex(connectionsGroup, n) = 0
    \/ Len(ScreenPoints(connectionsGroup, n)) < 2

\* C25: a selection, a pointer move of a handle drag or the pointer-up of a
\* handle drag that finds the connector of its note missing or without two
\* points raises no exception and leaves the adjuster's selected id,
\* baseline and handles and every stored connectionLine unchanged.
C25_MissingConnectorLeavesStateUnchanged ==
    [][/\ \A n \in Notes :
              (ConnectorUnreadable(n) /\ CardClick(n)) => AdjusterUntouched
       /\ (/\ isDragging /\ ~ihIsDragging /\ ~ihIsResizing
           /\ ConnectorUnreadable(dragTarget.recordId)
           /\ \E mouseX \in PointerXs, mouseY \in PointerYs :
                  HandleDragMove(mouseX, mouseY)) => AdjusterUntouched
       /\ (/\ isDragging /\ ~ihIsDragging /\ ~ihIsResizing
           /\ ConnectorUnreadable(dragTarget.recordId)
           /\ DocumentMouseUp) => AdjusterUntouched]_vars

\* C26: a pointer move of a handle drag on a horizontal segment keeps the x
\* of the handle, puts the handle and both end points of the segment at the
\* pointer's y and changes no x coordinate of the on-screen path; on a
\* vertical segment it keeps the y of the handle, puts the handle and both
\* end points at the pointer's x and changes no y coordinate of the path.
C26_DragMovesOnlyAcrossItsAxis ==
    [][\A mouseX \in PointerXs, mouseY \in PointerYs :
        (/\ ~ihIsDragging /\ ~ihIsResizing
         /\ HandleDragMove(mouseX, mouseY)
         /\ LineIndex(connectionsGroup, dragListeners[1].recordId) # 0
         /\ dragListeners[1].isHorizontal \/ dragListeners[1].isVertical)
        => LET c == dragListeners[1]
               moved == dragListeners'[1]
               i == c.segmentIndex
               before == ScreenPoints(connectionsGroup, c.recordId)
               after == ScreenPoints(connectionsGroup', c.recordId)
           IN  /\ Len(after) = Len(before)
               /\ IF c.isHorizontal
                  THEN /\ moved.x2 = c.x2
                       /\ moved.y2 + 2 * HandleHalfSize = 2 * mouseY
                       /\ after[i + 1].y = mouseY /\ after[i + 2].y = mouseY
                       /\ \A j \in 1..Len(before) : after[j].x = before[j].x
                  ELSE /\ moved.y2 = c.y2
                       /\ moved.x2 + 2 * HandleHalfSize = 2 * mouseX
                       /\ after[i + 1].x = mouseX /\ after[i + 2].x = mouseX
                       /\ \A j \in 1..Len(before) : after[j].y = before[j].y]_vars

\* C27: a pointer move of a handle drag works on a copy: the cached
\* baseline is after the move what it was before, point for point.
C27_DragMoveKeepsBaseline ==
    [][\A mouseX \in PointerXs, mouseY \in PointerYs :
          (/\ ~ihIsDragging /\ ~ihIsResizing
           /\ HandleDragMove(mouseX, mouseY)) =>
              originalPathPoints' = originalPathPoints]_vars

\* the application after the listener of recordDeselected ran in this state
Deselected == hideControlHandles(World)

\* C28: deselect, from any state and also while a handle drag is in
\* progress, removes every handle, clears the baseline and leaves no note
\* selected in the adjuster, raises no exception and changes neither a
\* connector nor a stored record; a click on a card whose connector is
\* missing ends in exactly that state.
C28_DeselectClearsHandlesOnly ==
    /\ [](/\ Deselected.handlesGroup = <<>>
          /\ Deselected.originalPathPoints = NoPoints
          /\ Deselected.selectedRecordId = NoId
          /\ ~Deselected.uncaughtError
          /\ Deselected.connectionsGroup = connectionsGroup
          /\ Deselected.records = records)
    /\ [][\A n \in Notes :
            (selectedRecord # NoId /\ LineIndex(connectionsGroup, n) = 0 /\ CardClick(n)) =>
                /\ handlesGroup' = <<>>
                /\ originalPathPoints' = NoPoints
                /\ selectedRecordId' = NoId
                /\ connectionsGroup' = connectionsGroup
                /\ records' = records]_vars

\* a handle drag is in progress with handles displayed, a baseline cached
\* and a connector on screen
C28_DragInProgressWithHandles ==
    /\ isDragging /\ dragListeners # <<>>
    /\ handlesGroup # <<>>
    /\ originalPathPoints # NoPoints
    /\ LineIndex(connectionsGroup, dragTarget.recordId) # 0
    /\ ScreenPoints(connectionsGroup, dragTarget.recordId)
           # parsePathData(DefaultPathOf(dragTarget.recordId, records[dragTarget.recordId]))

\* a connectionLine in the legacy format: custom, with segment offsets and
\* without a point list
LegacyLine(cl) ==
    /\ IsCustom(cl)
    /\ Has(cl, "segments") /\ Len(cl.segments) > 0
    /\ ~Has(cl, "pathPoints")

\* the path createCustomConnectionPath synthesizes for note n of the stored
\* data from the segments of cl
LegacyPathOf(n, cl) ==
    LET dot == InitialDot(DateOf(n))
        cp == calculateClosestEdgePoint(dot.x, dot.y,
                                        InitialPosition(n).x, InitialPosition(n).y,
                                        InitialSize(n).width, InitialSize(n).height)
    IN  createCustomConnectionPath(dot.x, dot.y, cp.x, cp.y, cl.segments)

\* C29: a note persisted with a legacy connectionLine keeps it through
\* loadRecords and the draw that follows, and its connector is the path
\* synthesized from the segments.
C29_LegacySegmentsKeptAndDrawn ==
    \A n \in Notes :
        (/\ input.kind = "load" /\ Has(output, "value")
         /\ LegacyLine(input.stored[n])) =>
            /\ output.value.records[n].connectionLine = input.stored[n]
            /\ output.fn = "drawAllConnectionLines" =>
                   DrawnPath(output.value, n) = LegacyPathOf(n, input.stored[n])

\* the position after the blanks that start at s[i]
SkipBlanks(s, i) == i + RunLength(s, i, SpaceChars)

\* the position after the whole number (an optional minus sign and digits)
\* that starts at s[i], 0 when none starts there
NumberEnd(s, i) ==
    LET j == IF i <= Len(s) /\ s[i] = "-" THEN i + 1 ELSE i
        n == RunLength(s, j, DigitChars)
    IN  IF n = 0 THEN 0 ELSE j + n

\* the position after the command (M or L and two numbers) that starts at
\* s[i], 0 when none starts there
CommandEnd(s, i) ==
    IF i > Len(s) \/ s[i] \notin {"M", "L"} THEN 0
    ELSE LET a == NumberEnd(s, SkipBlanks(s, i + 1))
             b == IF a = 0 THEN 0 ELSE NumberEnd(s, SkipBlanks(s, a))
         IN  b

\* s[i..] is a sequence of commands separated by any number of blanks
RECURSIVE WellFormedFrom(_, _)
WellFormedFrom(s, i) ==
    LET j == SkipBlanks(s, i)
    IN  IF j > Len(s) THEN TRUE
        ELSE CommandEnd(s, j) # 0 /\ WellFormedFrom(s, CommandEnd(s, j))

\* the value is no string, the empty string, or a string that is not a
\* sequence of move and line commands
NoPathString(value) ==
    \/ ~value.isString
    \/ value.chars = <<>>
    \/ ~WellFormedFrom(value.chars, 1)

\* C30: a line string generated from fewer than two points is the empty
\* path, and parsing a missing, non-string, empty or malformed path string
\* gives the empty point list.
C30_SerializationYieldsEmpty ==
    /\ (input.kind = "short" /\ Has(output, "value")) => output.value = <<>>
    /\ (input.kind = "text" /\ Has(output, "value") /\ NoPathString(input.value)) =>
           output.value = <<>>

\* C31: for an anchor outside the rectangle grown by MIN_CONNECTION_LENGTH
\* on every side, each of the four clamped edge candidates is at least
\* MIN_CONNECTION_LENGTH away, and calculateClosestEdgePoint returns the
\* nearest of them unfiltered: a boundary point no farther from the anchor
\* than any edge. Anchor (100,100) beside the rectangle (200,80,150,100)
\* gives (200,100).
C31_OutsideAnchorGetsNearestBoundaryPoint ==
    (/\ input.kind = "geometry" /\ Has(output, "value")
     /\ ~InsideOrTooClose(input.anchor, input.rect)) =>
        LET rect == input.rect
            edges == EdgePoints(input.anchor.x, input.anchor.y, rect.x,
                                rect.x + rect.width, rect.y, rect.y + rect.height)
            d2 == DistanceSquared(input.anchor.x, input.anchor.y,
                                  output.value.x, output.value.y)
        IN  /\ \A i \in 1..4 :
                   edges[i].d2 >= MIN_CONNECTION_LENGTH * MIN_CONNECTION_LENGTH
            /\ output.value = FirstNearest(edges)
            /\ OnPerimeter(output.value, rect)
            /\ \A i \in 1..4 : d2 <= edges[i].d2
            /\ (/\ input.anchor = Pt(100, 100)
                /\ rect = [x |-> 200, y |-> 80, width |-> 150, height |-> 100]) =>
                   output.value = Pt(200, 100)

\* the documented example has been computed
C31_DocumentedExampleComputed ==
    /\ input.kind = "geometry" /\ Has(output, "value")
    /\ input.anchor = Pt(100, 100)
    /\ input.rect = [x |-> 200, y |-> 80, width |-> 150, height |-> 100]
    /\ ~InsideOrTooClose(input.anchor, input.rect)
    /\ output.value = Pt(200, 100)

\* the point (px, py) lies on the ray from the centre (cx, cy) through the
\* anchor
OnRay(px, py, cx, cy, anchor) ==
    /\ (px - cx) * (anchor.y - cy) = (py - cy) * (anchor.x - cx)
    /\ (px - cx) * (anchor.x - cx) >= 0
    /\ (py - cy) * (anchor.y - cy) >= 0

\* C32: for an anchor inside the rectangle or within MIN_CONNECTION_LENGTH
\* of it, with (dx, dy) = anchor - centre, the forced point is
\* (rect.x - 20, centre.y) when dx = dy = 0; otherwise it is on the right
\* (dx > 0) or left (dx < 0) edge when |dx| > |dy|, else on the bottom
\* (dy > 0) or top edge, where the ray from the centre through the anchor
\* meets the edge's line, the other coordinate clamped to the edge's span.
\* Anchor (250,130) in the rectangle (200,80,150,100) gives (200,130).
C32_ForcedPointIsClampedRayIntersection ==
    (/\ input.kind = "geometry" /\ Has(output, "value")
     /\ InsideOrTooClose(input.anchor, input.rect)) =>
        LET rect == input.rect
            left == rect.x
            right == rect.x + rect.width
            top == rect.y
            bottom == rect.y + rect.height
            cx == rect.x + rect.width \div 2
            cy == rect.y + rect.height \div 2
            dx == input.anchor.x - cx
            dy == input.anchor.y - cy
            reach == Max(rect.width, rect.height)
        IN  /\ (dx = 0 /\ dy = 0) =>
                   output.value = Pt(rect.x - MIN_CONNECTION_LENGTH, cy)
            /\ (Abs(dx) > Abs(dy)) =>
                   LET edgeX == IF dx > 0 THEN right ELSE left
                   IN  \E qy \in (cy - reach)..(cy + reach) :
                           /\ OnRay(edgeX, qy, cx, cy, input.anchor)
                           /\ output.value = Pt(edgeX, Clamp(top, bottom, qy))
            /\ (Abs(dx) <= Abs(dy) /\ dy # 0) =>
                   LET edgeY == IF dy > 0 THEN bottom ELSE top
                   IN  \E qx \in (cx - reach)..(cx + reach) :
                           /\ OnRay(qx, edgeY, cx, cy, input.anchor)
                           /\ output.value = Pt(Clamp(left, right, qx), edgeY)
            /\ (/\ input.anchor = Pt(250, 130)
                /\ rect = [x |-> 200, y |-> 80, width |-> 150, height |-> 100]) =>
                   output.value = Pt(200, 130)

\* the forced point of an anchor whose ray leaves the edge's span has been
\* computed: the intersection is clamped to the corner
C32_ForcedPointClampedToCorner ==
    /\ input.kind = "geometry" /\ Has(output, "value")
    /\ input.anchor = Pt(100, 45)
    /\ input.rect = [x |-> 60, y |-> 20, width |-> 40, height |-> 20]
    /\ InsideOrTooClose(input.anchor, input.rect)
    /\ output.value = Pt(100, 40)

\* C33: at every beginDrag (the mousedown on a handle that starts a handle
\* drag) the cached baseline exists and equals the point list of the
\* on-screen path of the note the handle belongs to.
C33_BaselineIsScreenPathAtBeginDrag ==
    [][(~isDragging /\ ~ihIsDragging /\ ~ihIsResizing /\ isDragging')
       => /\ originalPathPoints' # NoPoints
          /\ originalPathPoints' =
                 ScreenPoints(connectionsGroup', dragTarget'.recordId)]_vars

\* the drags of the list that moved point k (counted from 1) across the
\* axis: vertically (a horizontal segment) or horizontally
DragsMoving(drags, k, vertically) ==
    {i \in 1..Len(drags) :
        /\ drags[i].moved
        /\ k \in {drags[i].segmentIndex + 1, drags[i].segmentIndex + 2}
        /\ IF vertically THEN drags[i].isHorizontal
           ELSE ~drags[i].isHorizontal /\ drags[i].isVertical}

LastOf(S) == CHOOSE i \in S : \A j \in S : j <= i

\* the captured path with every adjustment of the drags applied in order
AccumulatedPath(captured, drags) ==
    [k \in 1..Len(captured) |->
        Pt(IF DragsMoving(drags, k, FALSE) = {} THEN captured[k].x
           ELSE drags[LastOf(DragsMoving(drags, k, FALSE))].x,
           IF DragsMoving(drags, k, TRUE) = {} THEN captured[k].y
           ELSE drags[LastOf(DragsMoving(drags, k, TRUE))].y)]

\* C34: within one selection, after a drag of segment i and its release
\* followed by a drag of a different segment j, the on-screen path holds the
\* adjustments of both drags, and so does the committed path once the
\* second drag is released; the second drag does not start again from the
\* path captured at select.
C34_SuccessiveDragsAccumulate ==
    (/\ input.kind = "drag" /\ Has(output, "drags")
     /\ Len(output.drags) >= 2
     /\ output.drags[Len(output.drags)].moved
     /\ output.drags[Len(output.drags) - 1].moved
     /\ output.drags[Len(output.drags)].segmentIndex #
            output.drags[Len(output.drags) - 1].segmentIndex) =>
        LET w == output.value
            li == LineIndex(w.connectionsGroup, input.note)
            expected == AccumulatedPath(output.captured, output.drags)
        IN  /\ li # 0
            /\ parsePathData(w.connectionsGroup[li].d) = expected
            /\ ~w.buttonDown =>
                   /\ w.records[input.note].connectionLine.isCustom
                   /\ w.records[input.note].connectionLine.pathPoints = expected

\* the vertical segment of the three-point path of r2 dragged after its
\* horizontal segment: the committed path differs from the captured path in
\* the coordinates of both drags
C34_TwoDragsCommitted ==
    /\ input.kind = "drag" /\ Has(output, "drags")
    /\ input.note = "r2"
    /\ Len(output.drags) = 2
    /\ output.drags[1].segmentIndex = 1 /\ output.drags[1].moved
    /\ output.drags[2].segmentIndex = 0 /\ output.drags[2].moved
    /\ ~output.value.buttonDown
    /\ output.captured = <<Pt(10, 30), Pt(10, 70), Pt(60, 70)>>
    /\ output.value.records["r2"].connectionLine.pathPoints =
           <<Pt(20, 30), Pt(20, 45), Pt(60, 45)>>

\* the default path of note n in state w, from its day marker to the edge
\* point of its card at the stored position
DefaultPathIn(w, n) ==
    LET dot == w.dateDots[DateOf(n)]
        record == w.records[n]
        cp == calculateClosestEdgePoint(dot.x, dot.y, record.position.x,
                                        record.position.y, record.size.width,
                                        record.size.height)
    IN  PathString(DefaultPathPoints(dot.x, dot.y, cp.x, cp.y))

\* a draw request or a timer firing has been applied to the note store
DebounceOutput == input.kind = "debounce" /\ Has(output, "ops") /\ output.ops > 0

\* C35: after any sequence of position updates, immediate draws and timer
\* firings for any notes, every note has at most one live draw timer; a
\* request for a note replaces (debounced) or cancels (immediate) the
\* pending timer of that note and leaves the timers of the other notes as
\* they were; a pending timer is for the note's current position; after the
\* position update that ends a card drag, and after any timer firing for a
\* note with a default connector, the connector on screen is the one of the
\* note's current position.
C35_OnePendingDrawPerNote ==
    DebounceOutput =>
        LET w == output.value
            n == output.note
        IN  /\ \A m \in Notes : w.strayTimers[m] = <<>>
            /\ \A m \in Notes \ {n} : w.debounce[m] = output.before.debounce[m]
            /\ output.fn = "updateRecordPosition(dragging)" =>
                   w.debounce[n] = [customPosition |-> w.records[n].position,
                                    record |-> Null]
            /\ output.fn \in {"updateRecordPosition", "drawConnectionLine(immediate)",
                              "timer"} =>
                   w.debounce[n] = NoTimer
            /\ \A m \in Notes :
                   w.debounce[m] # NoTimer =>
                       w.debounce[m].customPosition = w.records[m].position
            /\ (\/ output.fn = "updateRecordPosition"
                \/ output.fn = "timer" /\ ~IsCustom(w.records[n].connectionLine)) =>
                   ScreenPath(w.connectionsGroup, n) = DefaultPathIn(w, n)

\* a card dragged over two positions and dropped while a draw of the other
\* note is pending: its connector is the one of the drop position and the
\* other note's timer is still pending
C35_DroppedWhileOtherPending ==
    /\ DebounceOutput
    /\ output.fn = "updateRecordPosition" /\ output.note = "r1"
    /\ output.before.debounce["r1"] # NoTimer
    /\ output.before.debounce["r1"].customPosition # output.value.records["r1"].position
    /\ output.value.debounce["r2"] # NoTimer
    /\ output.value.debounce["r1"] = NoTimer

\* C36: once a note has been removed from the note store, no connector
\* tagged with its id exists in any later state.
C36_NoConnectorOfRemovedNote ==
    \A n \in Notes : records[n] = NoRecord => LineIndex(connectionsGroup, n) = 0

\* C37: after any mouseup the card drag is over (InteractionHandler is not
\* dragging and has no drag target) and no exception left the handler.
C37_MouseUpEndsCardDrag ==
    [][DocumentMouseUp =>
           /\ ~ihIsDragging'
           /\ ihDragTarget' = NoId
           /\ ~uncaughtError']_vars

\* C39: in every state where the note store has no selected note the
\* adjuster is idle: no handles are displayed, no baseline is cached and no
\* handle drag is in progress.
C39_NoSelectionNoHandles ==
    selectedRecord = NoId =>
        /\ handlesGroup = <<>>
        /\ originalPathPoints = NoPoints
        /\ ~isDragging

\* C38: after any sequence of triggerAutoSave, disableAutoSave and
\* enableAutoSave calls, timer firings and save completions, at most one
\* autosave timer is live, so that a burst of triggers is followed by one
\* save, and while autosave is disabled no timer is live, so that no save
\* callback starts after disableAutoSave.
C38_OneAutoSaveTimer ==
    (input.kind = "autosave" /\ Has(output, "ops")) =>
        /\ Cardinality(output.value.live) <= 1
        /\ ~output.value.autoSaveEnabled => output.value.live = {}

====
